---- MODULE Spec2Model ----
(***************************************************************************)
(* Model of the Cicode extension's incremental source indexer              *)
(* (src/src/core/indexer/indexer.ts, class Indexer) and of the reference   *)
(* cache that subscribes to it (class ReferenceCache).                     *)
(*                                                                         *)
(* The workspace has three paths; "null" stands for no file (the file of a *)
(* builtin).  A document's text is one of a small catalogue of             *)
(* Cicode sources, given by what the extractors find in it: its function   *)
(* ranges, its declarations, its comment/string spans and its identifier   *)
(* occurrences, all with their character offsets.                          *)
(***************************************************************************)
EXTENDS Integers, Sequences, FiniteSets, TLC

----------------------------------------------------------------------------
(* Bounds *)

MaxOps == 3          \* requests per run: editor notifications and buildAll calls

(* uri.fsPath of the workspace's files, in the order findFiles lists them *)
PathOrder == << "a.ci", "b.ci", "c.ci" >>
Paths == {PathOrder[i] : i \in 1..Len(PathOrder)}
(* the callers of Indexer.buildAll: activate() and the reindexAll /        *)
(* rebuildBuiltins commands                                                *)
BuildIds == {"activate", "command"}
NoFile == "null"
Undefined == "undefined"       \* payload of the "full rebuild complete" notification

----------------------------------------------------------------------------
(* Partial maps (JavaScript Map): functions whose DOMAIN is the key set *)

EmptyMap == [k \in {} |-> 0]
Has(m, k) == k \in DOMAIN m
Put(m, k, v) == [x \in (DOMAIN m) \cup {k} |-> IF x = k THEN v ELSE m[x]]
Del(m, k) == [x \in (DOMAIN m) \ {k} |-> m[x]]
DelAll(m, ks) == [x \in (DOMAIN m) \ ks |-> m[x]]
GetOr(m, k, d) == IF k \in DOMAIN m THEN m[k] ELSE d

RECURSIVE FilterSeq(_, _, _)
FilterSeq(seq, Keep(_), i) ==
  IF i > Len(seq) THEN << >>
  ELSE IF Keep(seq[i]) THEN << seq[i] >> \o FilterSeq(seq, Keep, i + 1)
       ELSE FilterSeq(seq, Keep, i + 1)

----------------------------------------------------------------------------
(* String.prototype.toLowerCase on the identifiers of the catalogue *)

toLowerCase(n) ==
  CASE n = "Foo" -> "foo"
    [] n = "Bar" -> "bar"
    [] n = "StrLen" -> "strlen"
    [] n = "X" -> "x"
    [] OTHER -> n

----------------------------------------------------------------------------
(* The document catalogue.                                                 *)
(*                                                                         *)
(* Doc 1:  INT x;\nGLOBAL INT x;\nFUNCTION Foo(INT a)\n  INT x;\n  Bar();\nEND\n   *)
(* Doc 2:  FUNCTION foo()\n  Bar(); // Bar\nEND\n                              *)
(* Doc 3:  GLOBAL INT x;\nFUNCTION Bar()\n  Foo();\nEND\n                      *)
(*         FUNCTION StrLen(INT x)\nEND\n                                     *)
(*                                                                         *)
(* functions: what _extractFunctionsWithRanges returns (header start, name *)
(* offset, parsed parameter names, body start = header end, body end = end *)
(* of the closing END).  decls: the declaration lines the variable scanner *)
(* matches (qualifier, name, offset of the name).  spans: the result of    *)
(* buildIgnoreSpans.  words: the identifier occurrences that are function  *)
(* names somewhere in the catalogue.                                       *)

Fn(name, headerIndex, nameOffset, params, bodyStart, bodyEnd) ==
  [name |-> name, headerIndex |-> headerIndex, nameOffset |-> nameOffset,
   params |-> params, bodyStart |-> bodyStart, bodyEnd |-> bodyEnd]

Decl(kw, name, offset) == [kw |-> kw, name |-> name, offset |-> offset]

Word(w, offset) == [w |-> w, offset |-> offset]

Doc1 ==
  [length |-> 63,
   functions |-> << Fn("Foo", 21, 30, << "a" >>, 40, 62) >>,
   decls |-> << Decl("", "x", 4), Decl("GLOBAL", "x", 18), Decl("", "x", 47) >>,
   spans |-> << >>,
   words |-> << Word("Foo", 30), Word("Bar", 52) >>]

Doc2 ==
  [length |-> 35,
   functions |-> << Fn("foo", 0, 9, << >>, 14, 34) >>,
   decls |-> << >>,
   spans |-> << << 24, 30 >> >>,
   words |-> << Word("foo", 9), Word("Bar", 17), Word("Bar", 27) >>]

Doc3 ==
  [length |-> 69,
   functions |-> << Fn("Bar", 14, 23, << >>, 28, 41),
                    Fn("StrLen", 42, 51, << "x" >>, 64, 68) >>,
   decls |-> << Decl("GLOBAL", "x", 11) >>,
   spans |-> << >>,
   words |-> << Word("Bar", 23), Word("Foo", 31), Word("StrLen", 51) >>]

Docs == << Doc1, Doc2, Doc3 >>
DocIds == 1..Len(Docs)

(* getBuiltins(): the builtin table, lowercase name -> record *)
getBuiltins == [k \in {"strlen"} |-> [name |-> "StrLen"]]

----------------------------------------------------------------------------
(* State *)

VARIABLES
  idx,          \* the Indexer's six maps
  docs,         \* path -> id of the text of its TextDocument (0: none yet)
  exists,       \* path -> the file is on disk
  debounceDoc,  \* document captured by the pending _debouncedIndex timer, or NoFile
  builds,       \* buildAll invocations: position and remaining files
  fired,        \* payloads _onIndexed fired during the last step, in order
  indexedOk,    \* history: files each buildAll indexed and that were not deleted since
  stale,        \* history: paths whose contribution predates the latest buildAll call
  lastOp,       \* history: the last step taken
  indexedDoc,   \* history: path -> id of the text it was last indexed with (0: none)
  deleted,      \* history: paths deleted and not heard of since
  ops           \* requests so far

idxVars ==
  << idx, docs, exists, debounceDoc, builds, fired, indexedOk, stale, lastOp,
     indexedDoc, deleted, ops >>

----------------------------------------------------------------------------
(* Indexer operations, as functions of the six maps *)

EmptyIndex ==
  [functionCache |-> EmptyMap,
   variableCache |-> EmptyMap,
   functionRangesByFile |-> EmptyMap,
   ignoreSpansByFile |-> EmptyMap,
   functionKeysByFile |-> EmptyMap,
   variableKeysByFile |-> EmptyMap]

(* Indexer.localScopeId; the scope ids of module and global entries are    *)
(* written in the same three-part shape                                    *)
localScopeId(file, funcName) == << "local", file, funcName >>
moduleScopeId(file) == << "module", file, "" >>
globalScopeId == << "global", NoFile, "" >>

(* Indexer._purgeFile, without the notification *)
purgeFile(s, file) ==
  LET funcKeys == GetOr(s.functionKeysByFile, file, {})
      varKeys == GetOr(s.variableKeysByFile, file, {})
      NotOfFile(e) == e.file /= file
      filtered(k) == FilterSeq(s.variableCache[k], NotOfFile, 1)
      vkeep == {k \in DOMAIN s.variableCache :
                  k \in varKeys => filtered(k) /= << >>}
  IN [functionCache |-> DelAll(s.functionCache, funcKeys),
      functionKeysByFile |-> Del(s.functionKeysByFile, file),
      variableCache |-> [k \in vkeep |-> IF k \in varKeys THEN filtered(k)
                                          ELSE s.variableCache[k]],
      variableKeysByFile |-> Del(s.variableKeysByFile, file),
      functionRangesByFile |-> Del(s.functionRangesByFile, file),
      ignoreSpansByFile |-> Del(s.ignoreSpansByFile, file)]

(* _moveFile as it would be without the "Update ignore spans by file" block *)
moveFile_KeepsSpans(s, oldPath, newPath) ==
  LET Relocate(m) == IF Has(m, oldPath)
                     THEN Del(Put(m, newPath, m[oldPath]), oldPath)
                     ELSE m
  IN [functionCache |->
        [k \in DOMAIN s.functionCache |->
           IF s.functionCache[k].file = oldPath
           THEN [s.functionCache[k] EXCEPT !.file = newPath]
           ELSE s.functionCache[k]],
      variableCache |->
        [k \in DOMAIN s.variableCache |->
           [i \in 1..Len(s.variableCache[k]) |->
              IF s.variableCache[k][i].file = oldPath
              THEN [s.variableCache[k][i] EXCEPT !.file = newPath]
              ELSE s.variableCache[k][i]]],
      functionRangesByFile |-> Relocate(s.functionRangesByFile),
      ignoreSpansByFile |-> s.ignoreSpansByFile,
      functionKeysByFile |-> Relocate(s.functionKeysByFile),
      variableKeysByFile |-> Relocate(s.variableKeysByFile)]

(* Indexer._moveFile, without the notification *)
moveFile(s, oldPath, newPath) ==
  LET Relocate(m) == IF Has(m, oldPath)
                     THEN Del(Put(m, newPath, m[oldPath]), oldPath)
                     ELSE m
  IN [functionCache |->
        [k \in DOMAIN s.functionCache |->
           IF s.functionCache[k].file = oldPath
           THEN [s.functionCache[k] EXCEPT !.file = newPath]
           ELSE s.functionCache[k]],
      variableCache |->
        [k \in DOMAIN s.variableCache |->
           [i \in 1..Len(s.variableCache[k]) |->
              IF s.variableCache[k][i].file = oldPath
              THEN [s.variableCache[k][i] EXCEPT !.file = newPath]
              ELSE s.variableCache[k][i]]],
      functionRangesByFile |-> Relocate(s.functionRangesByFile),
      ignoreSpansByFile |-> Relocate(s.ignoreSpansByFile),
      functionKeysByFile |-> Relocate(s.functionKeysByFile),
      variableKeysByFile |-> Relocate(s.variableKeysByFile)]

(* Indexer._addVar *)
addVar(s, name, entry) ==
  LET k == toLowerCase(name)
  IN [s EXCEPT
        !.variableCache = Put(@, k, Append(GetOr(@, k, << >>), entry)),
        !.variableKeysByFile =
           Put(@, entry.file, GetOr(@, entry.file, {}) \cup {k})]

VarEntry(name, scopeType, scopeId, file, offset, range, isParam) ==
  [name |-> name, scopeType |-> scopeType, scopeId |-> scopeId,
   uri |-> file, offset |-> offset, file |-> file, range |-> range,
   isParam |-> isParam]

bodyRange(f) == << f.bodyStart, f.bodyEnd >>

(* _indexFile, the loop "for (const v of this._parseParamVariables(params))" *)
RECURSIVE addParams(_, _, _, _)
addParams(s, file, f, i) ==
  IF i > Len(f.params) THEN s
  ELSE addParams(
         addVar(s, f.params[i],
                VarEntry(f.params[i], "local", localScopeId(file, f.name),
                         file, f.nameOffset, bodyRange(f), TRUE)),
         file, f, i + 1)

(* _indexFile, the loop "for (const f of functions)" *)
RECURSIVE addFunctions(_, _, _, _)
addFunctions(s, file, functions, i) ==
  IF i > Len(functions) THEN s
  ELSE LET f == functions[i]
           key == toLowerCase(f.name)
           s1 == [s EXCEPT
                    !.functionCache =
                       Put(@, key, [name |-> f.name, file |-> file,
                                    uri |-> file, offset |-> f.nameOffset,
                                    params |-> f.params,
                                    bodyRange |-> bodyRange(f)]),
                    !.functionKeysByFile =
                       Put(@, file, GetOr(@, file, {}) \cup {key})]
       IN addFunctions(addParams(s1, file, f, 1), file, functions, i + 1)

(* _indexVariablesInText, scanDeclsInSlice over the slice [start, end) *)
NoFunc == Fn("", 0, 0, << >>, 0, 0)

RECURSIVE scanDeclsInSlice(_, _, _, _, _, _, _, _)
scanDeclsInSlice(s, file, decls, i, start, end, scopeKind, funcCtx) ==
  IF i > Len(decls) THEN s
  ELSE LET d == decls[i]
           inSlice == start <= d.offset /\ d.offset < end
           isGlobalKw == d.kw = "GLOBAL"
           entry ==
             IF scopeKind = "local" /\ funcCtx /= NoFunc
             THEN IF isGlobalKw
                  THEN VarEntry(d.name, "global", globalScopeId, file,
                                d.offset, << >>, FALSE)
                  ELSE VarEntry(d.name, "local",
                                localScopeId(file, funcCtx.name), file,
                                d.offset, bodyRange(funcCtx), FALSE)
             ELSE IF scopeKind = "local"
                  THEN VarEntry(d.name, "module", moduleScopeId(file), file,
                                d.offset, << >>, FALSE)
                  ELSE IF isGlobalKw
                       THEN VarEntry(d.name, "global", globalScopeId, file,
                                     d.offset, << >>, FALSE)
                       ELSE VarEntry(d.name, "module", moduleScopeId(file),
                                     file, d.offset, << >>, FALSE)
           s1 == IF inSlice THEN addVar(s, d.name, entry) ELSE s
       IN scanDeclsInSlice(s1, file, decls, i + 1, start, end, scopeKind,
                           funcCtx)

(* _indexVariablesInText, "Scan inside each function body" *)
RECURSIVE scanBodies(_, _, _, _)
scanBodies(s, file, doc, i) ==
  IF i > Len(doc.functions) THEN s
  ELSE LET f == doc.functions[i]
       IN scanBodies(
            scanDeclsInSlice(s, file, doc.decls, 1, f.bodyStart, f.bodyEnd,
                             "local", f),
            file, doc, i + 1)

(* _indexVariablesInText, the regions outside every function body *)
RECURSIVE nonFuncRegions(_, _, _, _)
nonFuncRegions(functions, i, cursor, length) ==
  IF i > Len(functions)
  THEN IF cursor < length THEN << << cursor, length >> >> ELSE << >>
  ELSE LET it == functions[i]
           next == IF cursor > it.bodyEnd THEN cursor ELSE it.bodyEnd
       IN (IF cursor < it.bodyStart THEN << << cursor, it.bodyStart >> >>
           ELSE << >>)
          \o nonFuncRegions(functions, i + 1, next, length)

(* _indexVariablesInText, "Scan module-level regions" *)
RECURSIVE scanRegions(_, _, _, _, _)
scanRegions(s, file, doc, regions, i) ==
  IF i > Len(regions) THEN s
  ELSE scanRegions(
         scanDeclsInSlice(s, file, doc.decls, 1, regions[i][1], regions[i][2],
                          "module", NoFunc),
         file, doc, regions, i + 1)

(* the scanner as it would be if it took the whole text for one module     *)
(* region                                                                  *)
indexVariablesInText_NoBodies(s, file, doc) ==
  scanRegions(s, file, doc, << << 0, doc.length >> >>, 1)

indexVariablesInText(s, file, doc) ==
  scanRegions(scanBodies(s, file, doc, 1), file, doc,
              nonFuncRegions(doc.functions, 1, 0, doc.length), 1)

(* Indexer._indexFile, without the notification *)
indexFile(s, file, doc) ==
  LET s0 == purgeFile(s, file)
      s1 == [s0 EXCEPT !.ignoreSpansByFile = Put(@, file, doc.spans)]
      s2 == [s1 EXCEPT !.functionRangesByFile = Put(@, file, doc.functions)]
      s3 == addFunctions(s2, file, doc.functions, 1)
  IN indexVariablesInText(s3, file, doc)

(* this._onIndexed.fire(file), with the place in _indexFile it is called   *)
(* from: behind the purge or behind the repopulation                       *)
onIndexedFire(file, after) == [file |-> file, after |-> after]

(* what _purgeFile publishes, as it would be if _indexFile called it       *)
(* without fireEvent = false                                               *)
purgeFilePublishes_Always(file, fireEvent) == << onIndexedFire(file, "purge") >>

(* what _purgeFile publishes: if (fireEvent) this._onIndexed.fire(file)    *)
purgeFilePublishes(file, fireEvent) ==
  IF fireEvent THEN << onIndexedFire(file, "purge") >> ELSE << >>

(* what one run of _indexFile publishes, in order: _purgeFile(file, false) *)
(* first, this._onIndexed.fire(file) as its last statement                 *)
indexFilePublishes(file) ==
  purgeFilePublishes(file, FALSE) \o << onIndexedFire(file, "repopulation") >>

publishedFiles(pubs) == [i \in 1..Len(pubs) |-> pubs[i].file]

(* Indexer.buildAll up to its first await: clear, then seed the builtins *)
buildAllClear(s) ==
  [s EXCEPT
     !.functionCache =
        [k \in DOMAIN getBuiltins |->
           [name |-> getBuiltins[k].name, file |-> NoFile, uri |-> NoFile,
            offset |-> -1, params |-> << >>, bodyRange |-> << >>]],
     !.variableCache = EmptyMap,
     !.functionRangesByFile = EmptyMap]

----------------------------------------------------------------------------
(* Queries of the Indexer *)

(* Indexer.hasFunction *)
hasFunction(s, name) == toLowerCase(name) \in DOMAIN s.functionCache

(* Indexer.getFunctionRanges *)
getFunctionRanges(s, file) == GetOr(s.functionRangesByFile, file, << >>)

RECURSIVE FirstIndex(_, _, _)
FirstIndex(seq, P(_), i) ==
  IF i > Len(seq) THEN 0
  ELSE IF P(seq[i]) THEN i ELSE FirstIndex(seq, P, i + 1)

(* Indexer.findEnclosingFunction: the first range of the document's file   *)
(* with headerIndex <= off < bodyEnd, NoFunc when there is none            *)
findEnclosingFunction(s, file, off) ==
  LET list == getFunctionRanges(s, file)
      Encloses(f) == off >= f.headerIndex /\ off < f.bodyEnd
      i == FirstIndex(list, Encloses, 1)
  IN IF i = 0 THEN NoFunc ELSE list[i]

Null == [name |-> "", scopeType |-> "null"]

(* resolveVariableAt as it would be with the global lookup placed before   *)
(* the module lookup                                                       *)
resolveVariableAt_GlobalFirst(s, file, off, name) ==
  LET lc == toLowerCase(name)
      candidates == GetOr(s.variableCache, lc, << >>)
      encl == findEnclosingFunction(s, file, off)
      sid == localScopeId(file, encl.name)
      IsLocal(v) == v.scopeType = "local" /\ v.scopeId = sid
      IsMod(v) == v.scopeType = "module" /\ v.scopeId = moduleScopeId(file)
      IsGlob(v) == v.scopeType = "global"
      local == IF encl = NoFunc THEN 0 ELSE FirstIndex(candidates, IsLocal, 1)
      mod == FirstIndex(candidates, IsMod, 1)
      glob == FirstIndex(candidates, IsGlob, 1)
  IN IF Len(candidates) = 0 THEN Null
     ELSE IF local /= 0 THEN candidates[local]
     ELSE IF glob /= 0 THEN candidates[glob]
     ELSE IF mod /= 0 THEN candidates[mod]
     ELSE candidates[1]

(* Indexer.resolveVariableAt *)
resolveVariableAt(s, file, off, name) ==
  LET lc == toLowerCase(name)
      candidates == GetOr(s.variableCache, lc, << >>)
      encl == findEnclosingFunction(s, file, off)
      sid == localScopeId(file, encl.name)
      IsLocal(v) == v.scopeType = "local" /\ v.scopeId = sid
      IsMod(v) == v.scopeType = "module" /\ v.scopeId = moduleScopeId(file)
      IsGlob(v) == v.scopeType = "global"
      local == IF encl = NoFunc THEN 0 ELSE FirstIndex(candidates, IsLocal, 1)
      mod == FirstIndex(candidates, IsMod, 1)
      glob == FirstIndex(candidates, IsGlob, 1)
  IN IF Len(candidates) = 0 THEN Null
     ELSE IF local /= 0 THEN candidates[local]
     ELSE IF mod /= 0 THEN candidates[mod]
     ELSE IF glob /= 0 THEN candidates[glob]
     ELSE candidates[1]

----------------------------------------------------------------------------
(* What a path contributes to the tables *)

FunctionKeysOf(s, file) ==
  {k \in DOMAIN s.functionCache : s.functionCache[k].file = file}

VarEntriesOf(s, file, k) ==
  LET OfFile(e) == e.file = file
  IN FilterSeq(s.variableCache[k], OfFile, 1)

VarKeysOf(s, file) ==
  {k \in DOMAIN s.variableCache : VarEntriesOf(s, file, k) /= << >>}

NoTableEntries(s, file) ==
  /\ FunctionKeysOf(s, file) = {}
  /\ VarKeysOf(s, file) = {}
  /\ ~Has(s.functionRangesByFile, file)
  /\ ~Has(s.ignoreSpansByFile, file)

NoContribution(s, file) ==
  /\ NoTableEntries(s, file)
  /\ ~Has(s.functionKeysByFile, file)
  /\ ~Has(s.variableKeysByFile, file)

Contributors(s) == {p \in Paths : ~NoTableEntries(s, p)}

----------------------------------------------------------------------------
(* Initial state: a.ci holds Doc 1 and b.ci holds Doc 2                    *)
(* on disk; the extension has just been constructed and nothing is indexed *)

(* vscode.workspace.findFiles("**/*.ci"): the files on disk *)
findFiles(onDisk) ==
  LET OnDisk(p) == onDisk[p]
  IN FilterSeq(PathOrder, OnDisk, 1)

(* the workspace the extension is activated in *)
InitialDoc(p) ==
  CASE p = "a.ci" -> 1
    [] p = "b.ci" -> 2
    [] OTHER -> 0

(* a call of buildAll: where it waits, the files still to visit, how often  *)
(* it has published; history: the files findFiles listed, those it indexed *)
(* and those whose open failed                                             *)
IdleBuild ==
  [pc |-> "idle", files |-> << >>, published |-> 0,
   found |-> << >>, indexed |-> {}, failed |-> {}]

Op(op, file, from, build, clean) ==
  [op |-> op, file |-> file, from |-> from, build |-> build, clean |-> clean]

IdxInit ==
  /\ idx = EmptyIndex
  /\ docs = [p \in Paths |-> InitialDoc(p)]
  /\ exists = [p \in Paths |-> InitialDoc(p) /= 0]
  /\ debounceDoc = NoFile
  /\ builds = [b \in BuildIds |-> IdleBuild]
  /\ fired = << >>
  /\ indexedOk = [b \in BuildIds |-> {}]
  /\ stale = {}
  /\ lastOp = Op("init", NoFile, NoFile, "", FALSE)
  /\ indexedDoc = [p \in Paths |-> 0]
  /\ deleted = {}
  /\ ops = 0

----------------------------------------------------------------------------
(* Indexer.buildAll.  Its continuations run when findFiles and             *)
(* openTextDocument answer; an await of _indexFile, which never suspends,  *)
(* lets no editor notification or timer in.                                *)

(* one more file of the loop is behind: next file, or publish and return *)
buildAllAdvance(bd, rest) ==
  [bd EXCEPT !.pc = IF rest = << >> THEN "done" ELSE "loop",
             !.files = rest,
             !.published = IF rest = << >> THEN @ + 1 ELSE @]

(* buildAll is called: clear three tables, seed the builtins, call findFiles *)
BuildAllStart(b) ==
  /\ ops < MaxOps
  /\ builds[b].pc = "idle"
  /\ idx' = buildAllClear(idx)
  /\ builds' = [builds EXCEPT ![b].pc = "findFiles"]
  /\ indexedOk' = [indexedOk EXCEPT ![b] = {}]
  /\ stale' = Contributors(idx)
  /\ fired' = << >>
  /\ lastOp' = Op("buildAll", NoFile, NoFile, b, FALSE)
  /\ ops' = ops + 1
  /\ UNCHANGED << docs, exists, debounceDoc, indexedDoc, deleted >>

(* findFiles answers with the .ci files on disk; an empty answer goes      *)
(* straight to the notification                                            *)
BuildAllFindFiles(b) ==
  /\ builds[b].pc = "findFiles"
  /\ LET files == findFiles(exists)
     IN /\ builds' = [builds EXCEPT
                         ![b] = buildAllAdvance([@ EXCEPT !.found = files], files)]
        /\ fired' = IF files = << >> THEN << Undefined >> ELSE << >>
  /\ lastOp' = Op("findFiles", NoFile, NoFile, b, FALSE)
  /\ UNCHANGED << idx, docs, exists, debounceDoc, indexedOk, stale, indexedDoc,
                  deleted, ops >>

(* openTextDocument answers: index the file; after the last file, publish  *)
BuildAllIndexFile(b) ==
  /\ builds[b].pc = "loop"
  /\ LET file == Head(builds[b].files)
         rest == Tail(builds[b].files)
     IN /\ exists[file]
        /\ idx' = indexFile(idx, file, Docs[docs[file]])
        /\ indexedOk' = [indexedOk EXCEPT ![b] = @ \cup {file}]
        /\ stale' = stale \ {file}
        /\ builds' = [builds EXCEPT
                         ![b] = buildAllAdvance(
                                  [@ EXCEPT !.indexed = @ \cup {file}], rest)]
        /\ fired' = publishedFiles(indexFilePublishes(file))
                       \o (IF rest = << >> THEN << Undefined >> ELSE << >>)
        /\ lastOp' = Op("index", file, NoFile, b, FALSE)
        /\ indexedDoc' = [indexedDoc EXCEPT ![file] = docs[file]]
  /\ UNCHANGED << docs, exists, debounceDoc, deleted, ops >>

(* the loop as it would be without its try/catch: the failure ends buildAll *)
BuildAllSkipFile_Aborts(b) ==
  /\ builds[b].pc = "loop"
  /\ LET file == Head(builds[b].files)
     IN /\ ~exists[file]
        /\ builds' = [builds EXCEPT ![b].pc = "done", ![b].files = << >>,
                                    ![b].failed = @ \cup {file}]
        /\ fired' = << >>
        /\ lastOp' = Op("skip", file, NoFile, b, FALSE)
  /\ UNCHANGED << idx, docs, exists, debounceDoc, indexedOk, stale, indexedDoc,
                  deleted, ops >>

(* openTextDocument fails (the file is gone): catch, log, next file *)
BuildAllSkipFile(b) ==
  /\ builds[b].pc = "loop"
  /\ LET file == Head(builds[b].files)
         rest == Tail(builds[b].files)
     IN /\ ~exists[file]
        /\ builds' = [builds EXCEPT
                         ![b] = buildAllAdvance(
                                  [@ EXCEPT !.failed = @ \cup {file}], rest)]
        /\ fired' = IF rest = << >> THEN << Undefined >> ELSE << >>
        /\ lastOp' = Op("skip", file, NoFile, b, FALSE)
  /\ UNCHANGED << idx, docs, exists, debounceDoc, indexedOk, stale, indexedDoc,
                  deleted, ops >>

----------------------------------------------------------------------------
(* Editor notifications the constructor subscribes to *)

(* onDidOpen/Save/ChangeTextDocument -> _maybeIndex -> _debouncedIndex(doc): *)
(* debounce clears the pending timer and arms a new one for this document  *)
DidChangeTextDocument(p, d) ==
  /\ ops < MaxOps
  /\ docs' = [docs EXCEPT ![p] = d]
  /\ exists' = [exists EXCEPT ![p] = TRUE]
  /\ debounceDoc' = p
  /\ fired' = << >>
  /\ lastOp' = Op("change", p, NoFile, "", FALSE)
  /\ ops' = ops + 1
  /\ deleted' = deleted \ {p}
  /\ UNCHANGED << idx, builds, indexedOk, stale, indexedDoc >>

(* the timer as it would be if running out left it armed *)
DebouncedIndex_StaysArmed ==
  /\ debounceDoc /= NoFile
  /\ idx' = indexFile(idx, debounceDoc, Docs[docs[debounceDoc]])
  /\ fired' = publishedFiles(indexFilePublishes(debounceDoc))
  /\ stale' = stale \ {debounceDoc}
  /\ lastOp' = Op("index", debounceDoc, NoFile, "", FALSE)
  /\ indexedDoc' = [indexedDoc EXCEPT ![debounceDoc] = docs[debounceDoc]]
  /\ UNCHANGED << docs, exists, builds, indexedOk, deleted, ops, debounceDoc >>

(* the debounce timer runs out: _indexFile(doc) on the document's text *)
DebouncedIndex ==
  /\ debounceDoc /= NoFile
  /\ idx' = indexFile(idx, debounceDoc, Docs[docs[debounceDoc]])
  /\ fired' = publishedFiles(indexFilePublishes(debounceDoc))
  /\ stale' = stale \ {debounceDoc}
  /\ lastOp' = Op("index", debounceDoc, NoFile, "", FALSE)
  /\ indexedDoc' = [indexedDoc EXCEPT ![debounceDoc] = docs[debounceDoc]]
  /\ debounceDoc' = NoFile
  /\ UNCHANGED << docs, exists, builds, indexedOk, deleted, ops >>

(* onDidDeleteFiles -> _purgeFile(f.fsPath) *)
DidDeleteFiles(p) ==
  /\ ops < MaxOps
  /\ exists[p]
  /\ idx' = purgeFile(idx, p)
  /\ fired' = << p >>
  /\ exists' = [exists EXCEPT ![p] = FALSE]
  /\ indexedOk' = [b \in BuildIds |-> indexedOk[b] \ {p}]
  /\ lastOp' = Op("delete", p, NoFile, "", FALSE)
  /\ indexedDoc' = [indexedDoc EXCEPT ![p] = 0]
  /\ deleted' = deleted \cup {p}
  /\ ops' = ops + 1
  /\ UNCHANGED << docs, debounceDoc, builds, stale >>

(* onDidRenameFiles -> _moveFile(oldUri.fsPath, newUri.fsPath) *)
DidRenameFiles(oldPath, newPath) ==
  /\ ops < MaxOps
  /\ exists[oldPath]
  /\ oldPath /= newPath
  /\ idx' = moveFile(idx, oldPath, newPath)
  /\ fired' = << newPath >>
  /\ docs' = [docs EXCEPT ![newPath] = docs[oldPath]]
  /\ exists' = [exists EXCEPT ![oldPath] = FALSE, ![newPath] = TRUE]
  /\ indexedOk' = [b \in BuildIds |-> indexedOk[b] \ {oldPath, newPath}]
  /\ stale' = IF oldPath \in stale THEN (stale \ {oldPath}) \cup {newPath}
              ELSE stale \ {newPath}
  /\ lastOp' = Op("rename", newPath, oldPath, "", NoContribution(idx, newPath))
  /\ indexedDoc' = [indexedDoc EXCEPT ![newPath] = indexedDoc[oldPath],
                                       ![oldPath] = 0]
  /\ deleted' = deleted \ {newPath}
  /\ ops' = ops + 1
  /\ UNCHANGED << debounceDoc, builds >>

----------------------------------------------------------------------------
(* ReferenceCache (src/unnamed/part_002): state *)

VARIABLE
  rc            \* the cache object: its fields, its timer, its suspended calls

VARIABLE
  call          \* a call of one of the text helpers: its arguments and result

(* no helper is being followed *)
NoCall == [fn |-> "none"]

BATCH_SIZE == 10

(* a RawReference; its length is that of the matched word *)
Ref(file, offset) == [file |-> file, offset |-> offset]

(* a SymbolReferences entry with no reference yet *)
NoRefs == [refs |-> << >>, count |-> 0]

(* indexer.getIgnoreSpans(file) as _scanFile sees it: a list or undefined *)
getIgnoreSpans(s, file) ==
  [cached |-> Has(s.ignoreSpansByFile, file),
   spans |-> GetOr(s.ignoreSpansByFile, file, << >>)]

(* a suspended call of _buildAll or _handleFileChanged: its local version, *)
(* where it waits, and its locals (changedFile; functionNames or           *)
(* currentFunctions; newSet; the files still to visit; the files scanned   *)
(* in the current batch; the ignore spans _scanFile fetched before its     *)
(* read)                                                                   *)
Task(kind, version, stage, file, names, newSet, files, inBatch, ignore) ==
  [kind |-> kind, version |-> version, stage |-> stage, file |-> file,
   names |-> names, newSet |-> newSet, files |-> files, inBatch |-> inBatch,
   ignore |-> ignore]

NoSpans == [cached |-> FALSE, spans |-> << >>]

(* the fields after construction; debounced is the argument held by the    *)
(* timer of _debouncedHandleChange; started and completed are history: the *)
(* version of the last _buildAll called and of the last one that reached   *)
(* its end                                                                 *)
RcInit ==
  [symbolRefs |-> EmptyMap,
   fileIndex |-> EmptyMap,
   buildVersion |-> 0,
   isReady |-> FALSE,
   fullBuildInProgress |-> FALSE,
   pendingChanges |-> << >>,
   knownFunctions |-> {},
   debounced |-> NoFile,
   tasks |-> {},
   started |-> 0,
   completed |-> 0]

----------------------------------------------------------------------------
(* ReferenceCache: helpers *)

RECURSIVE inSpan(_, _)
inSpan(pos, spans) ==
  IF spans = << >> THEN FALSE
  ELSE LET s == Head(spans)[1]
           e == Head(spans)[2]
       IN IF pos >= s /\ pos < e THEN TRUE
          ELSE IF pos < s THEN FALSE
          ELSE inSpan(pos, Tail(spans))

collectFunctionNames(s) == DOMAIN s.functionCache

(* the while loop of _scanFile over the matches of wordRe *)
RECURSIVE scanWords(_, _, _, _, _)
scanWords(symbolRefs, file, words, functionNames, ignore) ==
  IF words = << >> THEN symbolRefs
  ELSE LET m == Head(words)
           key == toLowerCase(m.w)
       IN IF key \notin functionNames \/ inSpan(m.offset, ignore)
          THEN scanWords(symbolRefs, file, Tail(words), functionNames, ignore)
          ELSE LET entry == GetOr(symbolRefs, key, NoRefs)
                   pushed == [entry EXCEPT !.refs = Append(@, Ref(file, m.offset))]
               IN scanWords(Put(symbolRefs, key, pushed), file, Tail(words),
                            functionNames, ignore)

(* _scanFile once its read has answered with text; fetched is what         *)
(* getIgnoreSpans returned when the scan was called                        *)
scanFile(r, file, text, fetched, functionNames) ==
  LET ignore == IF fetched.cached THEN fetched.spans ELSE text.spans
      symbolsFoundInFile ==
        {toLowerCase(text.words[i].w) :
           i \in {j \in 1..Len(text.words) :
                    /\ toLowerCase(text.words[j].w) \in functionNames
                    /\ ~inSpan(text.words[j].offset, ignore)}}
  IN [r EXCEPT
        !.symbolRefs = scanWords(@, file, text.words, functionNames, ignore),
        !.fileIndex = Put(@, file, GetOr(@, file, {}) \cup symbolsFoundInFile)]

purgeReferencesFromFile(r, file) ==
  IF ~Has(r.fileIndex, file) THEN r
  ELSE LET symbols == r.fileIndex[file] \cap DOMAIN r.symbolRefs
           NotFromFile(ref) == ref.file /= file
           kept == [sym \in symbols |->
                      FilterSeq(r.symbolRefs[sym].refs, NotFromFile, 1)]
           emptied == {sym \in symbols : kept[sym] = << >>}
       IN [r EXCEPT
             !.symbolRefs =
                [sym \in (DOMAIN r.symbolRefs) \ emptied |->
                   IF sym \in symbols
                   THEN [refs |-> kept[sym], count |-> Len(kept[sym])]
                   ELSE r.symbolRefs[sym]],
             !.fileIndex = Del(@, file)]

renameFile(r, oldPath, newPath) ==
  IF ~Has(r.fileIndex, oldPath) THEN r
  ELSE LET symbols == r.fileIndex[oldPath] \cap DOMAIN r.symbolRefs
           moved(refs) ==
             [i \in 1..Len(refs) |->
                IF refs[i].file = oldPath
                THEN [refs[i] EXCEPT !.file = newPath] ELSE refs[i]]
       IN [r EXCEPT
             !.symbolRefs =
                [sym \in DOMAIN r.symbolRefs |->
                   IF sym \in symbols
                   THEN [r.symbolRefs[sym] EXCEPT !.refs = moved(@)]
                   ELSE r.symbolRefs[sym]],
             !.fileIndex = Del(Put(@, newPath, r.fileIndex[oldPath]), oldPath)]

finalizeCounts(r) ==
  [r EXCEPT !.symbolRefs =
     [sym \in DOMAIN r.symbolRefs |->
        [r.symbolRefs[sym] EXCEPT !.count = Len(r.symbolRefs[sym].refs)]]]

(* this._debouncedHandleChange(file): the one timer is cleared and armed   *)
(* again with this file                                                    *)
debouncedHandleChange(r, file) == [r EXCEPT !.debounced = file]

----------------------------------------------------------------------------
(* ReferenceCache: _buildAll and _handleFileChanged, cut at their awaits *)

dropTask(r, t) == [r EXCEPT !.tasks = @ \ {t}]
replaceTask(r, t, u) == [r EXCEPT !.tasks = (@ \ {t}) \cup {u}]

(* _buildAll from its call to the await of findFiles, as it would be if   *)
(* it did not raise _fullBuildInProgress                                   *)
cacheBuildAll_NoInProgressFlag(r, s) ==
  LET version == r.buildVersion + 1
      functionNames == collectFunctionNames(s)
  IN [r EXCEPT
        !.buildVersion = version,
        !.symbolRefs = EmptyMap,
        !.fileIndex = EmptyMap,
        !.isReady = FALSE,
        !.pendingChanges = << >>,
        !.knownFunctions = functionNames,
        !.tasks = @ \cup {Task("buildAll", version, "findFiles", NoFile,
                               functionNames, {}, << >>, 0, NoSpans)},
        !.started = version]

(* _buildAll from its call to the await of findFiles *)
cacheBuildAll(r, s) ==
  LET version == r.buildVersion + 1
      functionNames == collectFunctionNames(s)
  IN [r EXCEPT
        !.buildVersion = version,
        !.symbolRefs = EmptyMap,
        !.fileIndex = EmptyMap,
        !.isReady = FALSE,
        !.fullBuildInProgress = TRUE,
        !.pendingChanges = << >>,
        !.knownFunctions = functionNames,
        !.tasks = @ \cup {Task("buildAll", version, "findFiles", NoFile,
                               functionNames, {}, << >>, 0, NoSpans)},
        !.started = version]

(* _buildAll after its loop, as it would be without the version test *)
cacheBuildAllEnd_NoVersionTest(r, t) ==
  LET pending == r.pendingChanges
  IN [dropTask(r, t) EXCEPT
        !.fullBuildInProgress = FALSE,
        !.isReady = TRUE,
        !.completed = t.version,
        !.pendingChanges = << >>,
        !.debounced = IF pending = << >> THEN @ ELSE pending[Len(pending)]]

(* _buildAll after its loop: give up if superseded, else ready, and hand   *)
(* the deferred files to the debounced handler one after the other         *)
cacheBuildAllEnd(r, t) ==
  IF r.buildVersion /= t.version THEN dropTask(r, t)
  ELSE LET pending == r.pendingChanges
       IN [dropTask(r, t) EXCEPT
             !.fullBuildInProgress = FALSE,
             !.isReady = TRUE,
             !.completed = t.version,
             !.pendingChanges = << >>,
             !.debounced = IF pending = << >> THEN @ ELSE pending[Len(pending)]]

(* the head of the batch loop with files left to visit: loop test, version *)
(* test, then the call of _scanFile for the batch's first file             *)
cacheBuildAllBatch(r, s, t, files) ==
  IF files = << >> THEN cacheBuildAllEnd(r, t)
  ELSE IF r.buildVersion /= t.version THEN dropTask(r, t)
  ELSE replaceTask(r, t, [t EXCEPT !.stage = "scan", !.files = files,
                                   !.inBatch = 0,
                                   !.ignore = getIgnoreSpans(s, Head(files))])

(* _handleFileChanged from its call to the await of _scanFile(changedFile) *)
handleFileChanged(r, s, changedFile) ==
  IF r.fullBuildInProgress
  THEN [r EXCEPT !.pendingChanges =
          IF \E i \in 1..Len(@) : @[i] = changedFile THEN @
          ELSE Append(@, changedFile)]
  ELSE LET version == r.buildVersion + 1
           purged == purgeReferencesFromFile(r, changedFile)
           currentFunctions == collectFunctionNames(s)
           newSymbols == currentFunctions \ r.knownFunctions
           removed == r.knownFunctions \ currentFunctions
       IN [purged EXCEPT
             !.buildVersion = version,
             !.symbolRefs = DelAll(@, removed),
             !.knownFunctions = currentFunctions,
             !.tasks = @ \cup {Task("handleFileChanged", version, "scanChanged",
                                    changedFile, currentFunctions, newSymbols,
                                    << >>, 0, getIgnoreSpans(s, changedFile))}]

(* the end of _handleFileChanged *)
handleFileChangedEnd(r, t) ==
  IF r.buildVersion /= t.version THEN dropTask(r, t)
  ELSE finalizeCounts(dropTask(r, t))

(* the loop over allFiles from Head(files) on, up to the next await *)
RECURSIVE handleFileChangedLoop(_, _, _, _)
handleFileChangedLoop(r, s, t, files) ==
  IF files = << >> THEN handleFileChangedEnd(r, t)
  ELSE IF r.buildVersion /= t.version THEN dropTask(r, t)
  ELSE IF Head(files) = t.file THEN handleFileChangedLoop(r, s, t, Tail(files))
  ELSE replaceTask(r, t, [t EXCEPT !.stage = "scanOther", !.files = files,
                                   !.ignore = getIgnoreSpans(s, Head(files))])

(* the listener of indexer.onIndexed *)
onIndexed(r, s, file) ==
  IF file = Undefined THEN cacheBuildAll(r, s)
  ELSE debouncedHandleChange(r, file)

RECURSIVE fireAll(_, _, _)
fireAll(r, s, payloads) ==
  IF payloads = << >> THEN r
  ELSE fireAll(onIndexed(r, s, Head(payloads)), s, Tail(payloads))

(* the read of _scanFile answers: the scan runs on the text now on disk,   *)
(* or returns at once if the file is gone                                  *)
scanAnswered(r, file, fetched, functionNames) ==
  IF exists[file] THEN scanFile(r, file, Docs[docs[file]], fetched, functionNames)
  ELSE r

----------------------------------------------------------------------------
(* ReferenceCache: steps *)

(* what the cache's listeners do within an indexer step: onIndexed for     *)
(* each notification published, then its own onDidDeleteFiles /            *)
(* onDidRenameFiles listener                                               *)
CacheListeners ==
  /\ rc' = LET heard == fireAll(rc, idx', fired')
           IN CASE lastOp'.op = "delete" ->
                     purgeReferencesFromFile(heard, lastOp'.file)
                [] lastOp'.op = "rename" ->
                     renameFile(heard, lastOp'.from, lastOp'.file)
                [] OTHER -> heard
  /\ UNCHANGED call

(* the 500 ms timer runs out: _handleFileChanged(file) *)
CacheDebounceFires ==
  /\ rc.debounced /= NoFile
  /\ rc' = handleFileChanged([rc EXCEPT !.debounced = NoFile], idx, rc.debounced)
  /\ UNCHANGED << idxVars, call >>

(* _buildAll: findFiles answers *)
CacheBuildFindFiles(t) ==
  /\ t.kind = "buildAll" /\ t.stage = "findFiles"
  /\ rc' = cacheBuildAllBatch(rc, idx, t, findFiles(exists))
  /\ UNCHANGED << idxVars, call >>

(* _buildAll: a _scanFile of the batch returns; next file of the batch, or *)
(* counts, notification and the yield to the event loop                    *)
CacheBuildScan(t) ==
  /\ t.kind = "buildAll" /\ t.stage = "scan"
  /\ LET scanned == scanAnswered(rc, Head(t.files), t.ignore, t.names)
         rest == Tail(t.files)
     IN rc' = IF t.inBatch + 1 < BATCH_SIZE /\ rest /= << >>
              THEN replaceTask(scanned, t,
                     [t EXCEPT !.files = rest, !.inBatch = @ + 1,
                               !.ignore = getIgnoreSpans(idx, Head(rest))])
              ELSE replaceTask(finalizeCounts(scanned), t,
                     [t EXCEPT !.stage = "yield", !.files = rest,
                               !.ignore = NoSpans])
  /\ UNCHANGED << idxVars, call >>

(* _buildAll: back from setTimeout(0) *)
CacheBuildYield(t) ==
  /\ t.kind = "buildAll" /\ t.stage = "yield"
  /\ rc' = cacheBuildAllBatch(rc, idx, t, t.files)
  /\ UNCHANGED << idxVars, call >>

(* _handleFileChanged: the scan of the changed file returns *)
CacheChangeScan(t) ==
  /\ t.kind = "handleFileChanged" /\ t.stage = "scanChanged"
  /\ LET scanned == scanAnswered(rc, t.file, t.ignore, t.names)
     IN rc' = IF t.newSet /= {}
              THEN replaceTask(scanned, t, [t EXCEPT !.stage = "findFiles",
                                                     !.ignore = NoSpans])
              ELSE handleFileChangedEnd(scanned, t)
  /\ UNCHANGED << idxVars, call >>

(* _handleFileChanged: findFiles answers *)
CacheChangeFindFiles(t) ==
  /\ t.kind = "handleFileChanged" /\ t.stage = "findFiles"
  /\ rc' = handleFileChangedLoop(rc, idx, t, findFiles(exists))
  /\ UNCHANGED << idxVars, call >>

(* _handleFileChanged: the scan of another file for the new names returns *)
CacheChangeScanOther(t) ==
  /\ t.kind = "handleFileChanged" /\ t.stage = "scanOther"
  /\ LET scanned == scanAnswered(rc, Head(t.files), t.ignore, t.newSet)
     IN rc' = handleFileChangedLoop(scanned, idx, t, Tail(t.files))
  /\ UNCHANGED << idxVars, call >>

----------------------------------------------------------------------------
(* The indexer alone: the cache object exists and hears nothing *)

Init == IdxInit /\ rc = RcInit /\ call = NoCall
Next ==
  \/ \E b \in BuildIds : BuildAllStart(b) /\ UNCHANGED << rc, call >>
  \/ \E b \in BuildIds : BuildAllFindFiles(b) /\ UNCHANGED << rc, call >>
  \/ \E b \in BuildIds : BuildAllIndexFile(b) /\ UNCHANGED << rc, call >>
  \/ \E b \in BuildIds : BuildAllSkipFile(b) /\ UNCHANGED << rc, call >>
  \/ \E p \in Paths, d \in DocIds : DidChangeTextDocument(p, d) /\ UNCHANGED << rc, call >>
  \/ DebouncedIndex /\ UNCHANGED << rc, call >>
  \/ \E p \in Paths : DidDeleteFiles(p) /\ UNCHANGED << rc, call >>
  \/ \E o \in Paths, n \in Paths : DidRenameFiles(o, n) /\ UNCHANGED << rc, call >>
vars == << idxVars, rc, call >>
Spec == Init /\ [][Next]_vars

----------------------------------------------------------------------------
(* The indexer with the reference cache listening to it, followed through  *)
(* a session that begins when the buildAll of activate() has published:    *)
(* the index holds a.ci and b.ci, the cache has heard the three            *)
(* notifications, so its timer holds b.ci and its first _buildAll waits    *)
(* for findFiles.  The user may then run the reindex command, rewrite      *)
(* a.ci, save b.ci as it is, delete a.ci and rename b.ci to c.ci.          *)

SessionEdits == {<< "a.ci", 3 >>, << "b.ci", 2 >>}
SessionDeletes == {"a.ci"}
SessionRenames == {<< "b.ci", "c.ci" >>}

ActivatedIndex ==
  indexFile(indexFile(buildAllClear(EmptyIndex), "a.ci", Docs[InitialDoc("a.ci")]),
            "b.ci", Docs[InitialDoc("b.ci")])

InitRC ==
  /\ idx = ActivatedIndex
  /\ docs = [p \in Paths |-> InitialDoc(p)]
  /\ exists = [p \in Paths |-> InitialDoc(p) /= 0]
  /\ debounceDoc = NoFile
  /\ builds = [b \in BuildIds |->
                 IF b = "activate"
                 THEN buildAllAdvance(
                        [IdleBuild EXCEPT !.found = << "a.ci", "b.ci" >>,
                                          !.indexed = {"a.ci", "b.ci"}],
                        << >>)
                 ELSE IdleBuild]
  /\ fired = << "b.ci", Undefined >>
  /\ indexedOk = [b \in BuildIds |->
                    IF b = "activate" THEN {"a.ci", "b.ci"} ELSE {}]
  /\ stale = {}
  /\ lastOp = Op("index", "b.ci", NoFile, "activate", FALSE)
  /\ indexedDoc = [p \in Paths |-> InitialDoc(p)]
  /\ deleted = {}
  /\ ops = 1
  /\ rc = fireAll(RcInit, ActivatedIndex, << "a.ci", "b.ci", Undefined >>)
  /\ call = NoCall

NextRC ==
  \/ \E b \in BuildIds : BuildAllStart(b) /\ CacheListeners
  \/ \E b \in BuildIds : BuildAllFindFiles(b) /\ CacheListeners
  \/ \E b \in BuildIds : BuildAllIndexFile(b) /\ CacheListeners
  \/ \E b \in BuildIds : BuildAllSkipFile(b) /\ CacheListeners
  \/ \E e \in SessionEdits : DidChangeTextDocument(e[1], e[2]) /\ CacheListeners
  \/ DebouncedIndex /\ CacheListeners
  \/ \E p \in SessionDeletes : DidDeleteFiles(p) /\ CacheListeners
  \/ \E e \in SessionRenames : DidRenameFiles(e[1], e[2]) /\ CacheListeners
  \/ CacheDebounceFires
  \/ \E t \in rc.tasks : CacheBuildFindFiles(t)
  \/ \E t \in rc.tasks : CacheBuildScan(t)
  \/ \E t \in rc.tasks : CacheBuildYield(t)
  \/ \E t \in rc.tasks : CacheChangeScan(t)
  \/ \E t \in rc.tasks : CacheChangeFindFiles(t)
  \/ \E t \in rc.tasks : CacheChangeScanOther(t)

SpecRC == InitRC /\ [][NextRC]_vars

----------------------------------------------------------------------------
(* Properties of the indexer *)

SeqSet(seq) == {seq[i] : i \in 1..Len(seq)}

SameEntry(m1, m2, k) ==
  /\ Has(m1, k) = Has(m2, k)
  /\ Has(m1, k) => m1[k] = m2[k]

(* file B contributes to t exactly what it contributes to s *)
SameContribution(s, t, B) ==
  /\ FunctionKeysOf(t, B) = FunctionKeysOf(s, B)
  /\ \A k \in FunctionKeysOf(s, B) : t.functionCache[k] = s.functionCache[k]
  /\ VarKeysOf(t, B) = VarKeysOf(s, B)
  /\ \A k \in VarKeysOf(s, B) : VarEntriesOf(t, B, k) = VarEntriesOf(s, B, k)
  /\ SameEntry(s.functionRangesByFile, t.functionRangesByFile, B)
  /\ SameEntry(s.ignoreSpansByFile, t.ignoreSpansByFile, B)

PurgeSteps(F) == lastOp'.op \in {"delete", "index"} /\ lastOp'.file = F

(* C1: purgeFile(A), run for a delete notification or as the first step of *)
(* re-indexing A, leaves every function record, every variable entry, the  *)
(* function-range list and the ignore spans of every other file B as they  *)
(* were.                                                                   *)
C1_PurgeLeavesOtherFiles ==
  [][\A A \in Paths :
       PurgeSteps(A) =>
         \A B \in Paths \ {A} : SameContribution(idx, purgeFile(idx, A), B)]_vars

(* C2: after purgeFile(F) no function record and no variable entry has F   *)
(* as its file, and F has neither a function-range list nor ignore spans.  *)
C2_PurgeRemovesFile ==
  [][\A F \in Paths :
       PurgeSteps(F) => NoTableEntries(purgeFile(idx, F), F)]_vars

(* C3: once buildAll has seeded the builtins, every builtin stays in the   *)
(* function table whatever is indexed, purged or moved afterwards.         *)
C3_BuiltinsStay ==
  (\E b \in BuildIds : builds[b].pc /= "idle") =>
     \A k \in DOMAIN getBuiltins : hasFunction(idx, getBuiltins[k].name)

(* C4: the four tables agree for every file F: with a function-range list, *)
(* F has ignore spans and each listed function has a record under its      *)
(* lowercase name; without one, no record or variable entry names F and F  *)
(* has no ignore spans.                                                    *)
C4_TablesAgree ==
  \A F \in Paths :
    /\ Has(idx.functionRangesByFile, F) =>
         /\ Has(idx.ignoreSpansByFile, F)
         /\ \A f \in SeqSet(idx.functionRangesByFile[F]) :
              toLowerCase(f.name) \in DOMAIN idx.functionCache
    /\ ~Has(idx.functionRangesByFile, F) => NoTableEntries(idx, F)

(* C5: buildAll starts by emptying all four tables, so that when it        *)
(* publishes its completion a file indexed before the build and not        *)
(* indexed since contributes nothing to any of the four tables.            *)
C5_BuildAllEmptiesTables ==
  [][/\ lastOp'.op = "buildAll" =>
          /\ \A k \in DOMAIN idx'.functionCache : idx'.functionCache[k].file = NoFile
          /\ idx'.variableCache = EmptyMap
          /\ idx'.functionRangesByFile = EmptyMap
          /\ idx'.ignoreSpansByFile = EmptyMap
     /\ \A b \in BuildIds :
          builds'[b].published > builds[b].published =>
             \A F \in stale' : NoTableEntries(idx', F)]_vars

VarNames == {"X", "a", "y"}
Positions == {5, 25, 45, 66}

(* C6: resolveVariableAt returns, among the entries stored under the       *)
(* case-folded name, the local entry of the enclosing function if there is *)
(* one, else the module entry of the document's file, else a global entry, *)
(* else some remaining entry, and null exactly when nothing is stored.     *)
C6_ResolveOrder ==
  \A p \in Paths, off \in Positions, n \in VarNames :
    LET r == resolveVariableAt(idx, p, off, n)
        cands == SeqSet(GetOr(idx.variableCache, toLowerCase(n), << >>))
        encl == findEnclosingFunction(idx, p, off)
        L == IF encl = NoFunc THEN {}
             ELSE {v \in cands : v.scopeType = "local"
                                 /\ v.scopeId = localScopeId(p, encl.name)}
        M == {v \in cands : v.scopeType = "module"
                            /\ v.scopeId = moduleScopeId(p)}
        G == {v \in cands : v.scopeType = "global"}
    IN /\ (r = Null) <=> (cands = {})
       /\ L /= {} => r \in L
       /\ (L = {} /\ M /= {}) => r \in M
       /\ (L = {} /\ M = {} /\ G /= {}) => r \in G
       /\ (L = {} /\ M = {} /\ G = {} /\ cands /= {}) => r \in cands

(* a.ci holds Doc 1 under its own path: x resolves to the local inside Foo, *)
(* to the module entry at module level, to the global from b.ci; the       *)
(* parameter a resolves from b.ci to the one entry left, and y to null     *)
C6_Witness ==
  /\ resolveVariableAt(idx, "a.ci", 45, "X").scopeType = "local"
  /\ resolveVariableAt(idx, "a.ci", 45, "X").offset = 47
  /\ resolveVariableAt(idx, "a.ci", 5, "x").scopeType = "module"
  /\ resolveVariableAt(idx, "b.ci", 5, "x").scopeType = "global"
  /\ resolveVariableAt(idx, "b.ci", 5, "a").scopeType = "local"
  /\ resolveVariableAt(idx, "b.ci", 5, "y") = Null

Unfiled(rec) == [rec EXCEPT !.file = NoFile]

FunctionRecordsOf(s, F) ==
  {<< k, Unfiled(s.functionCache[k]) >> : k \in FunctionKeysOf(s, F)}

VarRecordsOf(s, F, k) ==
  LET es == VarEntriesOf(s, F, k)
  IN [i \in 1..Len(es) |-> Unfiled(es[i])]

MoveRelocates(s, t, o, n) ==
  /\ FunctionRecordsOf(t, n) = FunctionRecordsOf(s, o)
  /\ VarKeysOf(t, n) = VarKeysOf(s, o)
  /\ \A k \in VarKeysOf(s, o) : VarRecordsOf(t, n, k) = VarRecordsOf(s, o, k)
  /\ Has(t.functionRangesByFile, n) = Has(s.functionRangesByFile, o)
  /\ GetOr(t.functionRangesByFile, n, << >>) = GetOr(s.functionRangesByFile, o, << >>)
  /\ Has(t.ignoreSpansByFile, n) = Has(s.ignoreSpansByFile, o)
  /\ GetOr(t.ignoreSpansByFile, n, << >>) = GetOr(s.ignoreSpansByFile, o, << >>)
  /\ Has(t.functionKeysByFile, n) = Has(s.functionKeysByFile, o)
  /\ GetOr(t.functionKeysByFile, n, {}) = GetOr(s.functionKeysByFile, o, {})
  /\ Has(t.variableKeysByFile, n) = Has(s.variableKeysByFile, o)
  /\ GetOr(t.variableKeysByFile, n, {}) = GetOr(s.variableKeysByFile, o, {})
  /\ NoContribution(t, o)
  /\ \A B \in Paths \ {o, n} :
       /\ SameContribution(s, t, B)
       /\ SameEntry(s.functionKeysByFile, t.functionKeysByFile, B)
       /\ SameEntry(s.variableKeysByFile, t.variableKeysByFile, B)

(* C7: moveFile(oldPath, newPath), for a newPath with no prior             *)
(* contribution, makes the function records, variable entries, range list, *)
(* ignore spans and reverse-index sets of newPath exactly those of oldPath *)
(* before, leaves nothing under oldPath, and changes no other file.        *)
C7_MoveRelocates ==
  [][\A o \in Paths, n \in Paths :
       (/\ lastOp'.op = "rename"
        /\ lastOp'.from = o
        /\ lastOp'.file = n
        /\ NoContribution(idx, n)) => MoveRelocates(idx, idx', o, n)]_vars

(* a rename onto a path without contribution has moved functions,          *)
(* variables, ranges and spans there, next to a third indexed file         *)
C7_Witness ==
  /\ lastOp.op = "rename"
  /\ lastOp.clean
  /\ FunctionKeysOf(idx, lastOp.file) /= {}
  /\ VarKeysOf(idx, lastOp.file) /= {}
  /\ Has(idx.functionRangesByFile, lastOp.file)
  /\ Has(idx.ignoreSpansByFile, lastOp.file)
  /\ \E B \in Paths \ {lastOp.file, lastOp.from} : ~NoTableEntries(idx, B)

HoldsContribution(s, F) ==
  /\ Has(s.functionRangesByFile, F)
  /\ Has(s.ignoreSpansByFile, F)
  /\ \A f \in SeqSet(s.functionRangesByFile[F]) :
       toLowerCase(f.name) \in DOMAIN s.functionCache

(* C8: buildAll publishes the notification without file identifier exactly *)
(* once, after its last file, and at that moment the tables hold the       *)
(* contribution of every file it indexed that was not deleted since.       *)
C8_BuildAllPublishes ==
  [][\A b \in BuildIds :
       /\ builds'[b].published <= 1
       /\ builds'[b].published > builds[b].published =>
            /\ builds'[b].files = << >>
            /\ Undefined \in SeqSet(fired')
            /\ \A F \in indexedOk'[b] : HoldsContribution(idx', F)]_vars

----------------------------------------------------------------------------
(* Properties of the reference cache *)

CacheIdle ==
  /\ rc.tasks = {}
  /\ rc.debounced = NoFile
  /\ rc.pendingChanges = << >>

IndexerIdle ==
  /\ debounceDoc = NoFile
  /\ \A b \in BuildIds : builds[b].pc \in {"idle", "done"}

(* word i of file p's last indexed text, if it names a function of the     *)
(* index outside comments and strings, is among the cached references of   *)
(* that name; a name with no cache entry at all is left out, since         *)
(* provideReferences answers it by a live scan                             *)
Cached(p, i) ==
  LET text == Docs[indexedDoc[p]]
      m == text.words[i]
      key == toLowerCase(m.w)
  IN (/\ key \in DOMAIN idx.functionCache
      /\ ~inSpan(m.offset, text.spans)
      /\ Has(rc.symbolRefs, key)) =>
       \E j \in 1..Len(rc.symbolRefs[key].refs) :
         rc.symbolRefs[key].refs[j] = Ref(p, m.offset)

(* C9: whenever the cache is ready and neither the cache nor the indexer   *)
(* has a call or a timer outstanding, the cached references of every       *)
(* function name in the index include every occurrence of that name        *)
(* outside comments and strings in every workspace file, as of the text    *)
(* the file was last indexed with.                                         *)
C9_CachedReferencesComplete ==
  (rc.isReady /\ CacheIdle /\ IndexerIdle) =>
    \A p \in Paths :
      (exists[p] /\ indexedDoc[p] /= 0) =>
        \A i \in 1..Len(Docs[indexedDoc[p]].words) : Cached(p, i)

(* C10: the readiness flag is true only if no full build is in progress    *)
(* and the most recently started _buildAll ran to its end; it is false     *)
(* while a _buildAll that has not been superseded is still running.        *)
C10_ReadyOnlyAfterLatestBuild ==
  /\ rc.isReady =>
       /\ ~rc.fullBuildInProgress
       /\ rc.started > 0
       /\ rc.completed = rc.started
  /\ (\E t \in rc.tasks : t.kind = "buildAll" /\ t.version = rc.buildVersion)
       => ~rc.isReady

(* ready after the later of two full builds completed, while the build it  *)
(* superseded is still suspended                                           *)
C10_Witness ==
  /\ rc.isReady
  /\ rc.completed = rc.started
  /\ \E t \in rc.tasks : t.kind = "buildAll" /\ t.version < rc.started

----------------------------------------------------------------------------
(* Properties of the indexer, continued *)

(* C11: a file of buildAll's list that fails to open is skipped and ends   *)
(* nothing: while the loop runs, every listed file is indexed, failed or   *)
(* still to be visited, and when buildAll returns every listed file that   *)
(* did not fail has been indexed and the notification has been published   *)
(* once.                                                                   *)
C11_BuildAllSkipsFailingFile ==
  \A b \in BuildIds :
    LET bd == builds[b]
    IN /\ bd.pc \in {"loop", "done"} =>
            /\ SeqSet(bd.found) = bd.indexed \cup bd.failed \cup SeqSet(bd.files)
            /\ bd.indexed \cap bd.failed = {}
       /\ bd.pc = "done" => (bd.files = << >> /\ bd.published = 1)
       /\ bd.pc /= "done" => bd.published = 0

(* a buildAll has returned and published after a.ci failed to open and     *)
(* b.ci, listed after it, was indexed                                      *)
C11_Witness ==
  \E b \in BuildIds :
    /\ builds[b].pc = "done"
    /\ builds[b].published = 1
    /\ builds[b].failed = {"a.ci"}
    /\ builds[b].indexed = {"b.ci"}

(* C12: a file whose delete notification has been handled, and for which   *)
(* no open, save or change notification (nor a rename onto it) has arrived *)
(* since, has no function record, variable entry, function-range list or   *)
(* ignore spans.                                                           *)
C12_DeletedStaysPurged ==
  \A F \in deleted : NoTableEntries(idx, F)

----------------------------------------------------------------------------
(* _extractFunctionsWithRanges: matching a function body to its END.       *)
(*                                                                         *)
(* The texts are  FUNCTION f()\n <body lines> FUNCTION g()\nEND\n  with    *)
(* the body lines taken from a small set of Cicode lines.  A line is given *)
(* by its length (with its line feed), the matches of tokenRe in it        *)
(* (keyword in lower case, offset in the line) and the span that           *)
(* scanCommentAndStringSpans finds in it.                                  *)

MaxBody == 4         \* lines between the two function headers

Tok(kw, at) == [kw |-> kw, at |-> at]

SourceLine(len, tokens, spans) == [len |-> len, tokens |-> tokens, spans |-> spans]

Openers == {"IF", "FOR", "WHILE", "REPEAT", "TRY", "SELECT"}
Ignored == {"\"IF\"", "\"END\"", "!IF", "//END"}
LineTexts == Openers \cup {"END", "END SELECT"} \cup Ignored

LineOf(text) ==
  CASE text = "IF" -> SourceLine(3, << Tok("if", 0) >>, << >>)
    [] text = "FOR" -> SourceLine(4, << Tok("for", 0) >>, << >>)
    [] text = "WHILE" -> SourceLine(6, << Tok("while", 0) >>, << >>)
    [] text = "REPEAT" -> SourceLine(7, << Tok("repeat", 0) >>, << >>)
    [] text = "TRY" -> SourceLine(4, << Tok("try", 0) >>, << >>)
    [] text = "SELECT" -> SourceLine(7, << Tok("select", 0) >>, << >>)
    [] text = "END" -> SourceLine(4, << Tok("end", 0) >>, << >>)
    [] text = "END SELECT" ->
         SourceLine(11, << Tok("end", 0), Tok("select", 4) >>, << >>)
    [] text = "\"IF\"" -> SourceLine(5, << Tok("if", 1) >>, << << 0, 4 >> >>)
    [] text = "\"END\"" -> SourceLine(6, << Tok("end", 1) >>, << << 0, 5 >> >>)
    [] text = "!IF" -> SourceLine(4, << Tok("if", 1) >>, << << 0, 3 >> >>)
    [] text = "//END" -> SourceLine(6, << Tok("end", 2) >>, << << 0, 5 >> >>)

(* "FUNCTION f()" and its line feed; the header ends behind the ")" *)
HeaderLine == SourceLine(13, << >>, << >>)
headerEndPos(headerIndex) == headerIndex + HeaderLine.len - 1

(* offset of body line i; line Len(body) + 1 is the second header *)
RECURSIVE lineStart(_, _)
lineStart(body, i) ==
  IF i = 1 THEN HeaderLine.len
  ELSE lineStart(body, i - 1) + LineOf(body[i - 1]).len

(* the matches of tokenRe in the text from body line i on, in text order;  *)
(* the last one is the END of the second function                          *)
RECURSIVE tokenMatches(_, _)
tokenMatches(body, i) ==
  IF i > Len(body)
  THEN << [kw |-> "end", index |-> lineStart(body, i) + HeaderLine.len] >>
  ELSE LET at == lineStart(body, i)
           toks == LineOf(body[i]).tokens
       IN [j \in 1..Len(toks) |-> [kw |-> toks[j].kw, index |-> at + toks[j].at]]
          \o tokenMatches(body, i + 1)

(* scanCommentAndStringSpans on the text, from body line i on *)
RECURSIVE commentAndStringSpans(_, _)
commentAndStringSpans(body, i) ==
  IF i > Len(body) THEN << >>
  ELSE LET at == lineStart(body, i)
           sp == LineOf(body[i]).spans
       IN [j \in 1..Len(sp) |-> << at + sp[j][1], at + sp[j][2] >>]
          \o commentAndStringSpans(body, i + 1)

(* the while loop over tokenRe from its i-th match on *)
RECURSIVE matchEnd(_, _, _, _, _)
matchEnd(tokens, i, depth, maxSearchEnd, ignoreCS) ==
  IF i > Len(tokens) THEN maxSearchEnd
  ELSE LET t == tokens[i]
       IN IF t.index >= maxSearchEnd THEN maxSearchEnd
          ELSE IF inSpan(t.index, ignoreCS)
          THEN matchEnd(tokens, i + 1, depth, maxSearchEnd, ignoreCS)
          ELSE IF t.kw = "end"
          THEN IF depth - 1 = 0 THEN t.index + 3
               ELSE matchEnd(tokens, i + 1, depth - 1, maxSearchEnd, ignoreCS)
          ELSE matchEnd(tokens, i + 1, depth + 1, maxSearchEnd, ignoreCS)

(* the FunctionRange list of the text: header start, body start and end of *)
(* both functions                                                          *)
extractFunctionsWithRanges(body) ==
  LET second == lineStart(body, Len(body) + 1)
      length == second + HeaderLine.len + LineOf("END").len
      tokens == tokenMatches(body, 1)
      ignoreCS == commentAndStringSpans(body, 1)
  IN << [headerIndex |-> 0, bodyStart |-> headerEndPos(0),
         endOffset |-> matchEnd(tokens, 1, 1, second, ignoreCS)],
        [headerIndex |-> second, bodyStart |-> headerEndPos(second),
         endOffset |-> matchEnd(tokens, Len(tokens), 1, length, ignoreCS)] >>

(* the line of the body that closes the first function, 0 if the body is   *)
(* not well nested: an opener opens a block, END closes the innermost      *)
(* block or, with none open, the function; END SELECT closes a SELECT      *)
(* block; behind the function's END only comments and strings follow       *)
RECURSIVE closingLine(_, _, _)
closingLine(body, i, open) ==
  IF i > Len(body) THEN 0
  ELSE IF body[i] \in Ignored THEN closingLine(body, i + 1, open)
  ELSE IF body[i] \in Openers
  THEN closingLine(body, i + 1, Append(open, body[i]))
  ELSE IF body[i] = "END SELECT"
  THEN IF open /= << >> /\ open[Len(open)] = "SELECT"
       THEN closingLine(body, i + 1, SubSeq(open, 1, Len(open) - 1))
       ELSE 0
  ELSE IF open /= << >>
  THEN closingLine(body, i + 1, SubSeq(open, 1, Len(open) - 1))
  ELSE IF \A j \in (i + 1)..Len(body) : body[j] \in Ignored THEN i ELSE 0

Bodies ==
  {body \in UNION {[1..n -> LineTexts] : n \in 1..MaxBody} :
     closingLine(body, 1, << >>) /= 0}

InitExtract ==
  /\ IdxInit
  /\ rc = RcInit
  /\ call \in {[fn |-> "extractFunctionsWithRanges", body |-> body,
                 done |-> FALSE, out |-> << >>] : body \in Bodies}

ExtractFunctions ==
  /\ call.fn = "extractFunctionsWithRanges"
  /\ ~call.done
  /\ call' = [call EXCEPT !.done = TRUE,
                          !.out = extractFunctionsWithRanges(call.body)]
  /\ UNCHANGED << idxVars, rc >>

NextExtract == ExtractFunctions

SpecExtract == InitExtract /\ [][NextExtract]_vars

(* C13: in a text of two consecutive functions whose first body is well    *)
(* nested, the first function's range ends at the end of its own closing   *)
(* END and strictly before the second function's header.                   *)
C13_BodyEndsAtOwnEnd ==
  call.done =>
    /\ call.out[1].endOffset =
         lineStart(call.body, closingLine(call.body, 1, << >>)) + 3
    /\ call.out[1].endOffset < call.out[2].headerIndex

----------------------------------------------------------------------------
(* The variable scanner on its own: _indexVariablesInText is given a text  *)
(* and the FunctionRange list of that text.  The texts have the layout     *)
(*   <module region> F <module region> G <module region>                   *)
(* with none, one or both of the functions F and G present, and one or two *)
(* declaration lines, each with no qualifier, GLOBAL or MODULE, in any of  *)
(* the five regions.                                                       *)

ScanFile == "a.ci"
ScanF == Fn("Foo", 5, 14, << >>, 17, 30)
ScanG == Fn("Bar", 35, 44, << >>, 47, 60)
ScanFunctions == {<< >>, << ScanF >>, << ScanG >>, << ScanF, ScanG >>}
ScanOffsets == {2, 20, 32, 50, 62}
ScanKeywords == {"", "GLOBAL", "MODULE"}
ScanDecls ==
  {Decl(kw, n, o) : kw \in ScanKeywords, n \in {"x"}, o \in ScanOffsets}
ScanDeclLists ==
  {<< d >> : d \in ScanDecls}
  \cup {ds \in ScanDecls \X ScanDecls : ds[1].offset < ds[2].offset}
ScanDocs ==
  {[length |-> 65, functions |-> fs, decls |-> ds, spans |-> << >>,
    words |-> << >>] : fs \in ScanFunctions, ds \in ScanDeclLists}

InitScan ==
  /\ IdxInit
  /\ rc = RcInit
  /\ call \in {[fn |-> "indexVariablesInText", doc |-> doc, done |-> FALSE,
                 out |-> EmptyMap] : doc \in ScanDocs}

ScanVariables ==
  /\ call.fn = "indexVariablesInText"
  /\ ~call.done
  /\ call' = [call EXCEPT
                !.done = TRUE,
                !.out = indexVariablesInText(EmptyIndex, ScanFile,
                                             call.doc).variableCache]
  /\ UNCHANGED << idxVars, rc >>

NextScan == ScanVariables

SpecScan == InitScan /\ [][NextScan]_vars

(* the entries of a variable table *)
TableEntries(m) == UNION {SeqSet(m[k]) : k \in DOMAIN m}

(* the functions whose body holds the offset *)
Enclosing(functions, offset) ==
  {f \in SeqSet(functions) : f.bodyStart <= offset /\ offset < f.bodyEnd}

(* C14: the variable scanner produces one entry per declaration it finds.  *)
(* For a declaration inside the body of a function the entry is global     *)
(* when the declaration carries GLOBAL, and otherwise (no qualifier or     *)
(* MODULE) local with the scope id of that function; for a declaration     *)
(* outside every body it is global when the declaration carries GLOBAL and *)
(* otherwise module with the file as scope id.  The table holds no other   *)
(* entry.                                                                  *)
C14_ScopeClassification ==
  (call.fn = "indexVariablesInText" /\ call.done) =>
    LET found == SeqSet(call.doc.decls)
        entries == TableEntries(call.out)
        EntryOf(d) == {v \in entries : v.offset = d.offset /\ v.name = d.name}
        Expected(d, v) ==
          LET encl == Enclosing(call.doc.functions, d.offset)
          IN IF d.kw = "GLOBAL"
             THEN v.scopeType = "global" /\ v.scopeId = globalScopeId
             ELSE IF encl /= {}
                  THEN /\ v.scopeType = "local"
                       /\ \E f \in encl :
                            v.scopeId = localScopeId(ScanFile, f.name)
                  ELSE /\ v.scopeType = "module"
                       /\ v.scopeId = moduleScopeId(ScanFile)
    IN /\ \A d \in found :
            /\ Cardinality(EntryOf(d)) = 1
            /\ \A v \in EntryOf(d) : Expected(d, v)
       /\ \A v \in entries : \E d \in found : v \in EntryOf(d)

(* a MODULE declaration inside the body of Foo became a local of Foo, and  *)
(* a GLOBAL declaration behind the last function became a global           *)
C14_Witness ==
  /\ call.fn = "indexVariablesInText"
  /\ call.done
  /\ call.doc.functions = << ScanF, ScanG >>
  /\ call.doc.decls = << Decl("MODULE", "x", 20), Decl("GLOBAL", "x", 62) >>
  /\ \E v \in TableEntries(call.out) :
       v.offset = 20 /\ v.scopeType = "local"
       /\ v.scopeId = localScopeId(ScanFile, "Foo")
  /\ \E v \in TableEntries(call.out) :
       v.offset = 62 /\ v.scopeType = "global"

----------------------------------------------------------------------------
(* The parse helpers (shared/parseHelpers).  A text is a sequence of       *)
(* characters; the character at offset i is text[i + 1].  A span list is a *)
(* sequence of pairs << s, e >> for the half-open interval [s, e).         *)

MaxLen == 4          \* characters behind the opening parenthesis

Chars == {"(", ")", ",", "\"", "'", "^", "a", " "}
charAt(text, pos) == IF pos < Len(text) THEN text[pos + 1] ELSE Undefined
isSpace(ch) == ch = " "

(* spanLowerBound: the first span whose end lies behind pos *)
RECURSIVE spanLowerBoundLoop(_, _, _, _)
spanLowerBoundLoop(spans, pos, lo, hi) ==
  IF lo < hi
  THEN LET mid == (lo + hi) \div 2
       IN IF spans[mid + 1][2] <= pos
          THEN spanLowerBoundLoop(spans, pos, mid + 1, hi)
          ELSE spanLowerBoundLoop(spans, pos, lo, mid)
  ELSE lo

spanLowerBound(spans, pos) == spanLowerBoundLoop(spans, pos, 0, Len(spans))

(* advancePastIgnored as it would be if it tested the span in front of the *)
(* one the search returns                                                  *)
advancePastIgnored_OffByOne(pos, spans) ==
  IF Len(spans) = 0 THEN pos
  ELSE LET i == spanLowerBound(spans, pos)
       IN IF i >= 1 /\ pos >= spans[i][1] /\ pos < spans[i][2]
          THEN spans[i][2]
          ELSE pos

advancePastIgnored(pos, spans) ==
  IF Len(spans) = 0 THEN pos
  ELSE LET i == spanLowerBound(spans, pos)
       IN IF i < Len(spans) /\ pos >= spans[i + 1][1] /\ pos < spans[i + 1][2]
          THEN spans[i + 1][2]
          ELSE pos

(* ScanState at the start of scanText *)
ScanState(startPos) ==
  [pos |-> startPos, depth |-> 0, inDQ |-> FALSE, inSQ |-> FALSE,
   esc |-> FALSE, jumped |-> FALSE, jumpedFrom |-> 0]

(* The onChar callbacks.  env holds the variables the callback closes      *)
(* over: depth for findMatchingParen, count and sawToken for               *)
(* countArgsTopLevel.  The answer is the ScanAction, the closure variables *)
(* and the state the callback may have written to.                         *)
Continue(env, state) ==
  [action |-> "continue", result |-> 0, env |-> env, state |-> state]

onChar(callback, ch, state, env) ==
  IF callback = "findMatchingParen"
  THEN IF ch = "("
       THEN Continue([env EXCEPT !.depth = @ + 1], state)
       ELSE IF ch = ")"
            THEN IF env.depth - 1 = 0
                 THEN [action |-> "result", result |-> state.pos,
                       env |-> [env EXCEPT !.depth = @ - 1], state |-> state]
                 ELSE Continue([env EXCEPT !.depth = @ - 1], state)
            ELSE Continue(env, state)
  ELSE LET env1 == IF state.jumped THEN [env EXCEPT !.sawToken = TRUE]
                   ELSE env
           state1 == [state EXCEPT !.jumped = FALSE]
       IN IF ch \in {"(", ")", "\"", "'"}
          THEN Continue([env1 EXCEPT !.sawToken = TRUE], state1)
          ELSE IF ch = "," /\ state1.depth = 0
               THEN Continue(
                      [env1 EXCEPT
                         !.count = IF env1.sawToken THEN @ + 1 ELSE @,
                         !.sawToken = FALSE],
                      state1)
               ELSE IF ~isSpace(ch)
                    THEN Continue([env1 EXCEPT !.sawToken = TRUE], state1)
                    ELSE Continue(env1, state1)

(* scanText, the loop "while (state.pos < endPos)" and what follows it *)
RECURSIVE scanTextLoop(_, _, _, _, _, _)
scanTextLoop(text, endPos, ignore, callback, state, env) ==
  IF state.pos < endPos
  THEN LET jumpedTo == advancePastIgnored(state.pos, ignore)
           ch == charAt(text, state.pos)
           step(st) == scanTextLoop(text, endPos, ignore, callback,
                                    [st EXCEPT !.pos = @ + 1], env)
       IN IF jumpedTo /= state.pos
          THEN scanTextLoop(text, endPos, ignore, callback,
                            [state EXCEPT !.jumped = TRUE,
                                          !.jumpedFrom = state.pos,
                                          !.pos = jumpedTo],
                            env)
          ELSE IF state.esc
          THEN step([state EXCEPT !.esc = FALSE])
          ELSE IF state.inDQ \/ state.inSQ
          THEN IF ch = "^" THEN step([state EXCEPT !.esc = TRUE])
               ELSE IF state.inDQ /\ ch = "\""
                    THEN step([state EXCEPT !.inDQ = FALSE])
                    ELSE IF state.inSQ /\ ch = "'"
                         THEN step([state EXCEPT !.inSQ = FALSE])
                         ELSE step(state)
          ELSE LET counted ==
                     IF ch = "(" THEN [state EXCEPT !.depth = @ + 1]
                     ELSE IF ch = ")" THEN [state EXCEPT !.depth = @ - 1]
                          ELSE state
                   r == onChar(callback, ch, counted, env)
               IN IF r.action = "stop"
                  THEN [result |-> counted.pos, env |-> r.env]
                  ELSE IF r.action = "result"
                       THEN [result |-> r.result, env |-> r.env]
                       ELSE scanTextLoop(
                              text, endPos, ignore, callback,
                              [r.state EXCEPT
                                 !.inDQ = IF ch = "\"" THEN TRUE ELSE @,
                                 !.inSQ = IF ch = "'" THEN TRUE ELSE @,
                                 !.pos = @ + 1],
                              r.env)
  ELSE IF state.jumped
       THEN [result |-> -1, env |-> onChar(callback, "", state, env).env]
       ELSE [result |-> -1, env |-> env]

scanText(text, startPos, endPos, ignore, callback, env) ==
  scanTextLoop(text, endPos, ignore, callback, ScanState(startPos), env)

(* findMatchingParen as it would be if it jumped over no ignore span *)
findMatchingParen_NoIgnore(text, openPos, ignore) ==
  scanText(text, openPos + 1, Len(text), << >>, "findMatchingParen",
           [depth |-> 1]).result

(* findMatchingParen, on scanText *)
findMatchingParen(text, openPos, ignore) ==
  scanText(text, openPos + 1, Len(text), ignore, "findMatchingParen",
           [depth |-> 1]).result

(* findMatchingParen of src/shared/parseHelpers.ts, with its own loop;     *)
(* q is the string state: inDQ, inSQ, esc                                  *)
RECURSIVE parseHelpers_findMatchingParenLoop(_, _, _, _, _)
parseHelpers_findMatchingParenLoop(text, ignore, i, depth, q) ==
  IF i < Len(text)
  THEN LET jumped == advancePastIgnored(i, ignore)
           ch == charAt(text, i)
           next(d, q1) ==
             parseHelpers_findMatchingParenLoop(text, ignore, i + 1, d, q1)
       IN IF jumped /= i
          THEN parseHelpers_findMatchingParenLoop(text, ignore, jumped,
                                                  depth, q)
          ELSE IF q.inDQ \/ q.inSQ
          THEN IF q.esc THEN next(depth, [q EXCEPT !.esc = FALSE])
               ELSE IF ch = "^" THEN next(depth, [q EXCEPT !.esc = TRUE])
               ELSE IF q.inDQ /\ ch = "\""
                    THEN next(depth, [q EXCEPT !.inDQ = FALSE])
                    ELSE IF q.inSQ /\ ch = "'"
                         THEN next(depth, [q EXCEPT !.inSQ = FALSE])
                         ELSE next(depth, q)
          ELSE IF ch = "\"" THEN next(depth, [q EXCEPT !.inDQ = TRUE])
          ELSE IF ch = "'" THEN next(depth, [q EXCEPT !.inSQ = TRUE])
          ELSE IF ch = "(" THEN next(depth + 1, q)
          ELSE IF ch = ")"
               THEN IF depth - 1 = 0 THEN i ELSE next(depth - 1, q)
               ELSE next(depth, q)
  ELSE -1

NoQuote == [inDQ |-> FALSE, inSQ |-> FALSE, esc |-> FALSE]

parseHelpers_findMatchingParen(text, openPos, ignore) ==
  parseHelpers_findMatchingParenLoop(text, ignore, openPos + 1, 1, NoQuote)

(* The arguments: every text of an opening parenthesis and up to MaxLen    *)
(* characters, with no ignore span or one span behind the parenthesis      *)
TextsOf(alphabet, n) == UNION {[1..k -> alphabet] : k \in 0..n}
OneSpan(n) == {<< >>} \cup {<< << s, e >> >> : s \in 1..n, e \in 1..n + 1}
ParenChars == Chars \ {",", " "}
ParenCalls ==
  {[fn |-> "findMatchingParen", text |-> << "(" >> \o t, openPos |-> 0,
    ignore |-> ig, done |-> FALSE, out |-> 0, outParseHelpers |-> 0] :
     t \in TextsOf(ParenChars, MaxLen),
     ig \in {ig \in OneSpan(MaxLen) :
               ig = << >> \/ ig[1][1] < ig[1][2]}}

InitParen == IdxInit /\ rc = RcInit /\ call \in ParenCalls

FindMatchingParen ==
  /\ call.fn = "findMatchingParen"
  /\ ~call.done
  /\ call' = [call EXCEPT
                !.done = TRUE,
                !.out = findMatchingParen(call.text, call.openPos,
                                          call.ignore),
                !.outParseHelpers =
                   parseHelpers_findMatchingParen(call.text, call.openPos,
                                                  call.ignore)]
  /\ UNCHANGED << idxVars, rc >>

NextParen == FindMatchingParen

SpecParen == InitParen /\ [][NextParen]_vars

(* What the text says, independent of any scanner.  An offset is hidden    *)
(* when a span holds it.  Among the offsets that are not hidden, a string  *)
(* literal runs from a quote to the next same quote that no ^ escapes.     *)
Hidden(spans, i) ==
  \E k \in 1..Len(spans) : spans[k][1] <= i /\ i < spans[k][2]

(* the quote state in front of offset i, reading from offset from:         *)
(* "code", or the open quote, with "^" appended when the character at i is *)
(* escaped                                                                 *)
RECURSIVE quoteBefore(_, _, _, _)
quoteBefore(text, spans, from, i) ==
  IF i <= from THEN "code"
  ELSE LET q == quoteBefore(text, spans, from, i - 1)
           ch == charAt(text, i - 1)
       IN IF Hidden(spans, i - 1) THEN q
          ELSE CASE q = "code" -> IF ch \in {"\"", "'"} THEN ch ELSE "code"
                 [] q \in {"\"", "'"} ->
                      IF ch = "^" THEN q \o "^"
                      ELSE IF ch = q THEN "code" ELSE q
                 [] q = "\"^" -> "\""
                 [] q = "'^" -> "'"

(* the offsets in from..to-1 that hold the character ch as code: not       *)
(* hidden and outside the string literals                                  *)
CodeOffsets(text, spans, from, to, ch) ==
  {i \in from..(to - 1) :
     /\ charAt(text, i) = ch
     /\ ~Hidden(spans, i)
     /\ quoteBefore(text, spans, from, i) = "code"}

(* the closing parentheses that match the one at openPos *)
Matching(text, spans, openPos) ==
  {j \in CodeOffsets(text, spans, openPos + 1, Len(text), ")") :
     /\ Cardinality(CodeOffsets(text, spans, openPos + 1, j, "("))
          = Cardinality(CodeOffsets(text, spans, openPos + 1, j, ")"))
     /\ \A m \in CodeOffsets(text, spans, openPos + 1, j, ")") :
          Cardinality(CodeOffsets(text, spans, openPos + 1, m, "("))
            > Cardinality(CodeOffsets(text, spans, openPos + 1, m, ")"))}

(* C15: findMatchingParen returns the offset of the closing parenthesis    *)
(* that matches the one at openPos, counting only the parentheses outside  *)
(* string literals and ignore spans, and returns -1 when the text holds no *)
(* such parenthesis; both versions of the function agree.                  *)
C15_FindMatchingParen ==
  (call.fn = "findMatchingParen" /\ call.done) =>
    LET match == Matching(call.text, call.ignore, call.openPos)
    IN /\ Cardinality(match) <= 1
       /\ call.out = (IF match = {} THEN -1 ELSE CHOOSE j \in match : TRUE)
       /\ call.outParseHelpers = call.out

(* "(" ")" in a string, then the closing parenthesis at offset 4 *)
C15_Witness ==
  /\ call.fn = "findMatchingParen"
  /\ call.done
  /\ call.text = << "(", "\"", ")", "\"", ")" >>
  /\ call.ignore = << >>
  /\ call.out = 4

(* a parenthesis that stays open: the only ")" lies in an ignore span *)
C15_WitnessNotFound ==
  /\ call.fn = "findMatchingParen"
  /\ call.done
  /\ call.text = << "(", "a", ")" >>
  /\ call.ignore = << << 2, 3 >> >>
  /\ call.out = -1

----------------------------------------------------------------------------
(* countArgsTopLevel *)

(* the closure variables of countArgsTopLevel and its flush() *)
NoArgs == [count |-> 0, sawToken |-> FALSE]
flush(env) ==
  [env EXCEPT !.count = IF env.sawToken THEN @ + 1 ELSE @,
              !.sawToken = FALSE]

(* countArgsTopLevel as it would be if it counted every comma *)
countArgsTopLevel_EveryComma(text, startAbs, endAbs, ignore) ==
  Cardinality({i \in startAbs..(endAbs - 1) : charAt(text, i) = ","}) + 1

(* countArgsTopLevel, on scanText *)
countArgsTopLevel(text, startAbs, endAbs, ignore) ==
  flush(scanText(text, startAbs, endAbs, ignore, "countArgsTopLevel",
                 NoArgs).env).count

(* countArgsTopLevel of src/shared/parseHelpers.ts, with its own loop *)
RECURSIVE parseHelpers_countArgsLoop(_, _, _, _, _, _, _)
parseHelpers_countArgsLoop(text, endAbs, ignore, i, depth, env, q) ==
  IF i < endAbs
  THEN LET jumped == advancePastIgnored(i, ignore)
           ch == charAt(text, i)
           token == [env EXCEPT !.sawToken = TRUE]
           next(d, env1, q1) ==
             parseHelpers_countArgsLoop(text, endAbs, ignore, i + 1, d,
                                        env1, q1)
       IN IF jumped /= i
          THEN parseHelpers_countArgsLoop(text, endAbs, ignore, jumped,
                                          depth, token, q)
          ELSE IF q.inDQ \/ q.inSQ
          THEN IF q.esc THEN next(depth, env, [q EXCEPT !.esc = FALSE])
               ELSE IF ch = "^" THEN next(depth, env, [q EXCEPT !.esc = TRUE])
               ELSE IF q.inDQ /\ ch = "\""
                    THEN next(depth, env, [q EXCEPT !.inDQ = FALSE])
                    ELSE IF q.inSQ /\ ch = "'"
                         THEN next(depth, env, [q EXCEPT !.inSQ = FALSE])
                         ELSE next(depth, token, q)
          ELSE IF ch = "\"" THEN next(depth, token, [q EXCEPT !.inDQ = TRUE])
          ELSE IF ch = "'" THEN next(depth, token, [q EXCEPT !.inSQ = TRUE])
          ELSE IF ch = "(" THEN next(depth + 1, token, q)
          ELSE IF ch = ")"
               THEN next(IF depth > 0 THEN depth - 1 ELSE depth, token, q)
          ELSE IF ch = "," /\ depth = 0 THEN next(depth, flush(env), q)
          ELSE IF ~isSpace(ch) THEN next(depth, token, q)
               ELSE next(depth, env, q)
  ELSE flush(env).count

parseHelpers_countArgsTopLevel(text, startAbs, endAbs, ignore) ==
  parseHelpers_countArgsLoop(text, endAbs, ignore, startAbs, 0, NoArgs,
                             NoQuote)

(* The arguments: "(" range ")" for every range of up to MaxLen            *)
(* characters, with no ignore span or one span that starts in the range    *)
ArgChars == Chars \ {"'"}
ArgCalls ==
  {[fn |-> "countArgsTopLevel", text |-> << "(" >> \o t \o << ")" >>,
    startAbs |-> 1, endAbs |-> Len(t) + 1, ignore |-> ig, done |-> FALSE,
    out |-> 0, outParseHelpers |-> 0] :
     t \in TextsOf(ArgChars, MaxLen),
     ig \in {ig \in OneSpan(MaxLen + 1) :
               ig = << >> \/ ig[1][1] < ig[1][2]}}

InitArgs ==
  /\ IdxInit
  /\ rc = RcInit
  /\ call \in {c \in ArgCalls :
                 c.ignore = << >> \/ c.ignore[1][1] < c.endAbs}

CountArgsTopLevel ==
  /\ call.fn = "countArgsTopLevel"
  /\ ~call.done
  /\ call' = [call EXCEPT
                !.done = TRUE,
                !.out = countArgsTopLevel(call.text, call.startAbs,
                                          call.endAbs, call.ignore),
                !.outParseHelpers =
                   parseHelpers_countArgsTopLevel(call.text, call.startAbs,
                                                  call.endAbs, call.ignore)]
  /\ UNCHANGED << idxVars, rc >>

NextArgs == CountArgsTopLevel

SpecArgs == InitArgs /\ [][NextArgs]_vars

(* What the range says.  Its parentheses are balanced when no prefix       *)
(* closes more than it opened and the range closes all it opened.          *)
Opened(text, spans, from, to) ==
  Cardinality(CodeOffsets(text, spans, from, to, "("))
  - Cardinality(CodeOffsets(text, spans, from, to, ")"))

Balanced(text, spans, from, to) ==
  /\ \A m \in from..to : Opened(text, spans, from, m) >= 0
  /\ Opened(text, spans, from, to) = 0

(* the commas that separate arguments: code, and inside no parenthesis *)
TopCommas(text, spans, from, to) ==
  {c \in CodeOffsets(text, spans, from, to, ",") :
     Opened(text, spans, from, c) = 0}

(* the segments [b, e) between them, and those that hold a token *)
Segments(text, spans, from, to) ==
  LET commas == TopCommas(text, spans, from, to)
      starts == {from} \cup {c + 1 : c \in commas}
      endOf(b) == CHOOSE e \in commas \cup {to} :
                    /\ e >= b
                    /\ \A x \in commas \cup {to} : x >= b => e <= x
  IN {<< b, endOf(b) >> : b \in starts}

HasToken(text, spans, seg) ==
  \E i \in seg[1]..(seg[2] - 1) :
     Hidden(spans, i) \/ ~isSpace(charAt(text, i))

ArgSegments(text, spans, from, to) ==
  {seg \in Segments(text, spans, from, to) : HasToken(text, spans, seg)}

(* C16: on a range with balanced parentheses countArgsTopLevel returns the *)
(* number of segments between top-level commas that hold a token: a        *)
(* character that is not white space, or an ignore span.  Commas inside    *)
(* parentheses, string literals and ignore spans separate nothing; an      *)
(* empty or blank range has 0 arguments.  Both versions of the function    *)
(* agree.                                                                  *)
C16_CountArgsTopLevel ==
  (/\ call.fn = "countArgsTopLevel"
   /\ call.done
   /\ Balanced(call.text, call.ignore, call.startAbs, call.endAbs)) =>
    /\ call.out = Cardinality(ArgSegments(call.text, call.ignore,
                                          call.startAbs, call.endAbs))
    /\ call.outParseHelpers = call.out

(* f(a,a) is one argument although it holds a comma *)
C16_Witness ==
  /\ call.fn = "countArgsTopLevel"
  /\ call.done
  /\ call.text = << "(", "(", ",", ")", ")" >>
  /\ call.ignore = << >>
  /\ call.out = 1

(* a blank range has no argument *)
C16_WitnessBlank ==
  /\ call.fn = "countArgsTopLevel"
  /\ call.done
  /\ call.text = << "(", " ", " ", ")" >>
  /\ call.out = 0

----------------------------------------------------------------------------
(* advancePastIgnored on its own *)

MaxSpans == 3        \* spans in a list

(* the span lists that are sorted and do not overlap: each span starts at  *)
(* or behind the end of the one before; offsets run from 0 to MaxLen + 1   *)
RECURSIVE SortedSpans(_, _)
SortedSpans(k, lo) ==
  IF k = 0 THEN {<< >>}
  ELSE UNION {UNION {{<< << s, e >> >> \o rest :
                        rest \in SortedSpans(k - 1, e)} :
                     e \in s..(MaxLen + 1)} :
              s \in lo..(MaxLen + 1)}

SpanLists == UNION {SortedSpans(k, 0) : k \in 0..MaxSpans}

InitAdvance ==
  /\ IdxInit
  /\ rc = RcInit
  /\ call \in {[fn |-> "advancePastIgnored", pos |-> p, spans |-> ss,
                 done |-> FALSE, out |-> 0] :
                  p \in 0..(MaxLen + 1), ss \in SpanLists}

AdvancePastIgnored ==
  /\ call.fn = "advancePastIgnored"
  /\ ~call.done
  /\ call' = [call EXCEPT
                !.done = TRUE,
                !.out = advancePastIgnored(call.pos, call.spans)]
  /\ UNCHANGED << idxVars, rc >>

NextAdvance == AdvancePastIgnored

SpecAdvance == InitAdvance /\ [][NextAdvance]_vars

(* the spans of a list that hold the position *)
Holding(spans, pos) ==
  {k \in 1..Len(spans) : spans[k][1] <= pos /\ pos < spans[k][2]}

(* C17: for a sorted span list without overlaps, advancePastIgnored(p, S)  *)
(* is the end of the span of S that holds p, and p when no span holds it.  *)
C17_AdvancePastIgnored ==
  (call.fn = "advancePastIgnored" /\ call.done) =>
    LET holding == Holding(call.spans, call.pos)
    IN IF holding = {}
       THEN call.out = call.pos
       ELSE \A k \in holding : call.out = call.spans[k][2]

(* the position lies in the last of three spans, which the binary search   *)
(* has to find                                                             *)
C17_Witness ==
  /\ call.fn = "advancePastIgnored"
  /\ call.done
  /\ call.spans = << << 0, 1 >>, << 1, 2 >>, << 3, 5 >> >>
  /\ call.pos = 4
  /\ call.out = 5

----------------------------------------------------------------------------
(* mergeSpans (shared/textUtils) *)

(* Array.prototype.sort((a, b) => a[0] - b[0]): stable, by start *)
RECURSIVE insertByStart(_, _)
insertByStart(sorted, span) ==
  IF sorted = << >> THEN << span >>
  ELSE IF sorted[Len(sorted)][1] <= span[1] THEN Append(sorted, span)
       ELSE Append(insertByStart(SubSeq(sorted, 1, Len(sorted) - 1), span),
                   sorted[Len(sorted)])

RECURSIVE sortByStart(_)
sortByStart(spans) ==
  IF spans = << >> THEN << >>
  ELSE insertByStart(sortByStart(SubSeq(spans, 1, Len(spans) - 1)),
                     spans[Len(spans)])

Max(a, b) == IF a > b THEN a ELSE b

(* mergeSpans, the loop "for (const [s, e] of spans)" *)
RECURSIVE mergeSpansLoop(_, _, _)
mergeSpansLoop(spans, i, out) ==
  IF i > Len(spans) THEN out
  ELSE LET s == spans[i][1]
           e == spans[i][2]
       IN IF out = << >> \/ s > out[Len(out)][2]
          THEN mergeSpansLoop(spans, i + 1, Append(out, << s, e >>))
          ELSE mergeSpansLoop(
                 spans, i + 1,
                 [out EXCEPT ![Len(out)][2] = Max(out[Len(out)][2], e)])

(* mergeSpans as it would be if it sorted and merged nothing *)
mergeSpans_SortOnly(spans) ==
  IF spans = << >> THEN << >> ELSE sortByStart(spans)

mergeSpans(spans) ==
  IF spans = << >> THEN << >>
  ELSE mergeSpansLoop(sortByStart(spans), 1, << >>)

(* The arguments: every list of up to MaxSpans intervals [s, e) with       *)
(* 0 <= s <= e <= MaxLen, in any order                                     *)
Intervals == {<< s, e >> : s \in 0..MaxLen, e \in 0..MaxLen}
IntervalLists ==
  UNION {[1..k -> {iv \in Intervals : iv[1] <= iv[2]}] : k \in 0..MaxSpans}

InitMerge ==
  /\ IdxInit
  /\ rc = RcInit
  /\ call \in {[fn |-> "mergeSpans", spans |-> ss, done |-> FALSE,
                 out |-> << >>, again |-> << >>] : ss \in IntervalLists}

MergeSpans ==
  /\ call.fn = "mergeSpans"
  /\ ~call.done
  /\ call' = [call EXCEPT
                !.done = TRUE,
                !.out = mergeSpans(call.spans),
                !.again = mergeSpans(mergeSpans(call.spans))]
  /\ UNCHANGED << idxVars, rc >>

NextMerge == MergeSpans

SpecMerge == InitMerge /\ [][NextMerge]_vars

(* the offsets of a span list *)
Covered(spans) ==
  {i \in 0..MaxLen : \E k \in 1..Len(spans) :
                        spans[k][1] <= i /\ i < spans[k][2]}

(* C18: mergeSpans is idempotent, mergeSpans(mergeSpans(S)) =              *)
(* mergeSpans(S), and its result is sorted by start with no two spans      *)
(* overlapping.                                                            *)
C18_MergeSpans ==
  (call.fn = "mergeSpans" /\ call.done) =>
    /\ call.again = call.out
    /\ \A i, j \in 1..Len(call.out) :
         i < j => /\ call.out[i][1] <= call.out[j][1]
                  /\ call.out[i][2] <= call.out[j][1]

(* three intervals given out of order, two of them overlapping, merged     *)
(* into two                                                                *)
C18_Witness ==
  /\ call.fn = "mergeSpans"
  /\ call.done
  /\ call.spans = << << 3, 4 >>, << 0, 2 >>, << 1, 2 >> >>
  /\ call.out = << << 0, 2 >>, << 3, 4 >> >>
  /\ call.again = call.out
  /\ Covered(call.out) = Covered(call.spans)

----------------------------------------------------------------------------
(* Properties of the reference cache, continued *)

(* the step is the continuation of the suspended operation t: the indexer  *)
(* is left alone and t leaves its await                                    *)
Resumes(t) == t \in rc.tasks /\ t \notin rc'.tasks /\ UNCHANGED idxVars

(* the reference tables, counts included *)
Tables(r) == << r.symbolRefs, r.fileIndex >>

(* C19: when an operation of the reference cache (full build or            *)
(* incremental update) resumes and its version stamp is no longer the      *)
(* current one, the step changes neither symbolRefs (references and        *)
(* counts) nor fileIndex, does not set the ready flag and does not clear   *)
(* the in-progress flag.                                                   *)
C19_SupersededChangesNothing ==
  [][\A t \in rc.tasks :
       (Resumes(t) /\ t.version /= rc.buildVersion) =>
         /\ Tables(rc') = Tables(rc)
         /\ rc'.isReady = rc.isReady
         /\ rc'.fullBuildInProgress = rc.fullBuildInProgress]_vars

(* the step is _handleFileChanged called by the timer of                   *)
(* _debouncedHandleChange                                                  *)
HandlesChange ==
  rc.debounced /= NoFile /\ rc'.debounced = NoFile /\ UNCHANGED idxVars

(* C20: while a full build is in progress, no step of an incremental       *)
(* update changes the version stamp, symbolRefs or fileIndex, and a file   *)
(* change handled in that window does nothing but add its file to the      *)
(* pending set.                                                            *)
C20_NoUpdateDuringFullBuild ==
  [][rc.fullBuildInProgress =>
       /\ \A t \in rc.tasks :
            (Resumes(t) /\ t.kind = "handleFileChanged") =>
              /\ rc'.buildVersion = rc.buildVersion
              /\ Tables(rc') = Tables(rc)
       /\ HandlesChange =>
            /\ rc'.buildVersion = rc.buildVersion
            /\ Tables(rc') = Tables(rc)
            /\ rc'.tasks = rc.tasks
            /\ SeqSet(rc'.pendingChanges)
                 = SeqSet(rc.pendingChanges) \cup {rc.debounced}]_vars

----------------------------------------------------------------------------
(* The same session with time passing: every timer that is armed runs out  *)
(* and every await (findFiles, openTextDocument, readFile, setTimeout(0))  *)
(* answers.  What the user does stays optional.                            *)

TimePasses ==
  \/ DebouncedIndex /\ CacheListeners
  \/ \E b \in BuildIds : BuildAllFindFiles(b) /\ CacheListeners
  \/ \E b \in BuildIds : BuildAllIndexFile(b) /\ CacheListeners
  \/ \E b \in BuildIds : BuildAllSkipFile(b) /\ CacheListeners
  \/ CacheDebounceFires
  \/ \E t \in rc.tasks : CacheBuildFindFiles(t)
  \/ \E t \in rc.tasks : CacheBuildScan(t)
  \/ \E t \in rc.tasks : CacheBuildYield(t)
  \/ \E t \in rc.tasks : CacheChangeScan(t)
  \/ \E t \in rc.tasks : CacheChangeFindFiles(t)
  \/ \E t \in rc.tasks : CacheChangeScanOther(t)

SpecRCLive == SpecRC /\ WF_vars(TimePasses)

(* an incremental update for the file is under way *)
Processing(f) ==
  \E t \in rc.tasks : t.kind = "handleFileChanged" /\ t.file = f

(* the file waits in the pending set *)
Pending(f) == f \in SeqSet(rc.pendingChanges)

(* the step in which a _buildAll reaches its end and drains *)
BuildCompletes == rc.fullBuildInProgress /\ ~rc'.fullBuildInProgress

(* C21: a file that is in the pending set during a full build is           *)
(* eventually processed by an incremental update for that file, unless a   *)
(* newer full build starts (which empties the set and leaves the build     *)
(* flag up); and the pending set is empty once the drain has been issued.  *)
C21_PendingEventuallyProcessed ==
  /\ \A f \in Paths :
       Pending(f) ~> (Processing(f) \/ (rc.fullBuildInProgress /\ ~Pending(f)))
  /\ [][BuildCompletes => rc'.pendingChanges = << >>]_vars

----------------------------------------------------------------------------
(* The indexer's debounce on its own: open/save/change notifications and   *)
(* the 300 ms timer of _debouncedIndex.  A notification that finds the     *)
(* timer armed came less than 300 ms after the one that armed it.  call    *)
(* follows the burst of the file notified last: the number of its          *)
(* notifications so far and the number of _indexFile runs the timer has    *)
(* started for it since its first notification.                            *)

NoBurst == [fn |-> "debouncedIndex", file |-> NoFile, burst |-> 0, runs |-> 0]

InitBurst == IdxInit /\ rc = RcInit /\ call = NoBurst

MaybeIndex(p, d) ==
  /\ DidChangeTextDocument(p, d)
  /\ call' = IF debounceDoc = p /\ call.file = p
             THEN [call EXCEPT !.burst = @ + 1]
             ELSE [NoBurst EXCEPT !.file = p, !.burst = 1]
  /\ UNCHANGED rc

TimerRunsOut ==
  /\ DebouncedIndex
  /\ call' = IF debounceDoc = call.file THEN [call EXCEPT !.runs = @ + 1]
             ELSE call
  /\ UNCHANGED rc

NextBurst ==
  \/ \E p \in Paths, d \in DocIds : MaybeIndex(p, d)
  \/ TimerRunsOut

SpecBurst == InitBurst /\ [][NextBurst]_vars

(* C22: a burst of notifications for one file, each arriving while the     *)
(* timer armed by the one before is still running, starts no _indexFile    *)
(* run while it lasts (the tables stay as they are and nothing is          *)
(* published) and exactly one run, on that file, when the timer armed by   *)
(* its last notification runs out.                                         *)
C22_BurstRunsOnce ==
  /\ [](call.file /= NoFile =>
          /\ debounceDoc = call.file => call.runs = 0
          /\ debounceDoc = NoFile =>
               /\ call.runs = 1
               /\ lastOp = Op("index", call.file, NoFile, "", FALSE)
               /\ indexedDoc[call.file] = docs[call.file])
  /\ [][lastOp'.op = "change" =>
          /\ idx' = idx
          /\ fired' = << >>
          /\ debounceDoc' = lastOp'.file]_vars

(* three notifications for a.ci in one burst, then the one run, on the     *)
(* text of the last notification                                           *)
C22_Witness ==
  /\ call.file = "a.ci"
  /\ call.burst = 3
  /\ call.runs = 1
  /\ debounceDoc = NoFile
  /\ indexedDoc["a.ci"] = docs["a.ci"]

(* the same with time passing: an armed timer runs out *)
SpecBurstLive == SpecBurst /\ WF_vars(TimerRunsOut)

(* C23: every open, save or change notification for a file F is            *)
(* eventually followed by an _indexFile run on F, whatever notifications   *)
(* for other files arrive in between.                                      *)
C23_EveryNotificationIndexed ==
  \A F \in Paths :
    (lastOp.op = "change" /\ lastOp.file = F)
      ~> (lastOp.op = "index" /\ lastOp.file = F)

----------------------------------------------------------------------------
(* Properties of the indexer, continued *)

(* the buildAll call has cleared the tables and not yet published *)
Running(b) == builds[b].pc \in {"findFiles", "loop"}

(* C24: two buildAll runs never overlap: while one buildAll is suspended   *)
(* at an await, no other buildAll (of activation or of a command) has      *)
(* cleared the tables and is on its way too.                               *)
C24_BuildAllNeverOverlaps ==
  \A b, c \in BuildIds : (Running(b) /\ Running(c)) => b = c

----------------------------------------------------------------------------
(* Properties of the reference cache, continued *)

(* C25: no symbol's reference list holds two entries with the same file    *)
(* and offset, in any reachable state.                                     *)
C25_NoDuplicateReference ==
  \A key \in DOMAIN rc.symbolRefs :
    LET refs == rc.symbolRefs[key].refs
    IN \A i, j \in 1..Len(refs) : refs[i] = refs[j] => i = j

----------------------------------------------------------------------------
(* Properties of the indexer, continued *)

(* what the claim compares of a declaration: name, scope kind and offset *)
Declaration(v) ==
  IF v = Null THEN Null
  ELSE [name |-> v.name, scopeType |-> v.scopeType, offset |-> v.offset]

(* C26: after moveFile(oldPath, newPath), resolveVariableAt returns for    *)
(* every position of the renamed document and every name the declaration   *)
(* (name, scope kind, offset) it returned for that position under oldPath  *)
(* before the rename.                                                      *)
C26_RenameKeepsResolution ==
  [][\A o \in Paths, n \in Paths :
       (/\ lastOp'.op = "rename"
        /\ lastOp'.from = o
        /\ lastOp'.file = n
        /\ NoContribution(idx, n)) =>
         \A off \in Positions, name \in VarNames :
           Declaration(resolveVariableAt(idx', n, off, name))
             = Declaration(resolveVariableAt(idx, o, off, name))]_vars

----------------------------------------------------------------------------
(* Properties of the reference cache, continued *)

(* The cache's readiness is followed through a session made of what the   *)
(* claim speaks of: reindex commands, which end in a full-build request,   *)
(* and saves of a.ci, which end in file-change requests; every timer runs  *)
(* out and every await is answered.                                        *)
NextReady ==
  \/ \E b \in BuildIds : BuildAllStart(b) /\ CacheListeners
  \/ \E b \in BuildIds : BuildAllFindFiles(b) /\ CacheListeners
  \/ \E b \in BuildIds : BuildAllIndexFile(b) /\ CacheListeners
  \/ DidChangeTextDocument("a.ci", InitialDoc("a.ci")) /\ CacheListeners
  \/ DebouncedIndex /\ CacheListeners
  \/ CacheDebounceFires
  \/ \E t \in rc.tasks : CacheBuildFindFiles(t)
  \/ \E t \in rc.tasks : CacheBuildScan(t)
  \/ \E t \in rc.tasks : CacheBuildYield(t)
  \/ \E t \in rc.tasks : CacheChangeScan(t)
  \/ \E t \in rc.tasks : CacheChangeFindFiles(t)
  \/ \E t \in rc.tasks : CacheChangeScanOther(t)

SpecReady == InitRC /\ [][NextReady]_vars /\ WF_vars(TimePasses)

(* C27: once the full-build requests have stopped and with every timer     *)
(* and await answering, the ready flag becomes true and stays true,        *)
(* whatever file-change requests arrive before, during or after the build. *)
C27_EventuallyReadyForGood == <>[]rc.isReady

(* ready, with nothing outstanding, after a file change was deferred       *)
(* during the build and handled after it                                   *)
C27_Witness ==
  /\ rc.isReady
  /\ CacheIdle
  /\ IndexerIdle
  /\ rc.buildVersion > rc.completed
  /\ ops = MaxOps

(* C28: whenever no full build and no incremental update is in flight, the *)
(* count reported for each cached symbol is the number of references       *)
(* stored for it.                                                          *)
getReferences(r, key) == r.symbolRefs[key]

getReferenceCount(r, key) == GetOr(r.symbolRefs, key, NoRefs).count

C28_CountMatchesStoredReferences ==
  (rc.tasks = {} /\ ~rc.fullBuildInProgress) =>
    \A key \in DOMAIN rc.symbolRefs :
      getReferenceCount(rc, key) = Len(getReferences(rc, key).refs)

----------------------------------------------------------------------------
(* Properties of the indexer, continued *)

(* what file F contributes once document d has been indexed under it *)
Recorded(s, F, d) == SameContribution(indexFile(EmptyIndex, F, Docs[d]), s, F)

(* F's reverse-index sets name every key under which F has an entry, so    *)
(* that _purgeFile(F) reaches all of F's contribution (C2 is about the     *)
(* states where they do not)                                               *)
Listed(s, F) ==
  /\ FunctionKeysOf(s, F) \subseteq GetOr(s.functionKeysByFile, F, {})
  /\ VarKeysOf(s, F) \subseteq GetOr(s.variableKeysByFile, F, {})

(* the functions of document d, its function ranges and its ignore spans   *)
(* are in the tables under F, and so are the parameters and variables      *)
NewRecorded(s, F, d) ==
  LET ref == indexFile(EmptyIndex, F, Docs[d])
  IN /\ FunctionKeysOf(ref, F) \subseteq FunctionKeysOf(s, F)
     /\ \A k \in FunctionKeysOf(ref, F) : s.functionCache[k] = ref.functionCache[k]
     /\ VarKeysOf(ref, F) \subseteq VarKeysOf(s, F)
     /\ \A k \in VarKeysOf(ref, F) :
          SeqSet(VarEntriesOf(ref, F, k)) \subseteq SeqSet(VarEntriesOf(s, F, k))
     /\ SameEntry(ref.functionRangesByFile, s.functionRangesByFile, F)
     /\ SameEntry(ref.ignoreSpansByFile, s.ignoreSpansByFile, F)

ReindexUnchanged(F) ==
  /\ lastOp'.op = "index"
  /\ lastOp'.file = F
  /\ indexedDoc[F] /= 0
  /\ indexedDoc[F] = docs[F]

C30_ReindexIsIdempotent ==
  [][\A F \in Paths :
       ReindexUnchanged(F) =>
         /\ idx'.functionCache = idx.functionCache
         /\ DOMAIN idx'.variableCache = DOMAIN idx.variableCache
         /\ \A k \in DOMAIN idx.variableCache :
              SeqSet(idx'.variableCache[k]) = SeqSet(idx.variableCache[k])
         /\ SameEntry(idx.functionRangesByFile, idx'.functionRangesByFile, F)
         /\ SameEntry(idx.ignoreSpansByFile, idx'.ignoreSpansByFile, F)]_vars
====
